---- MODULE Spec2Model ----
(***************************************************************************)
(* Streaming speech-to-text server (whisper-streaming/server).            *)
(*                                                                         *)
(* The module models the per-connection handler of server/main.py, the    *)
(* StreamingSession it owns, the transcription strategies of              *)
(* server/transcriber.py and the recognizer calls that the handler        *)
(* offloads to the event loop's default executor.                         *)
(*                                                                         *)
(* Conventions                                                             *)
(*   - a text is a sequence of one-character strings; NoText is Python's  *)
(*     None where a text is optional; a path and a strategy name are      *)
(*     sequences of tokens ("/" or a name);                                *)
(*   - an audio array is a sequence of samples (small integers);          *)
(*   - segment times are counted in sample periods (1/sample_rate s), so  *)
(*     len(context_audio) / sample_rate seconds is Len(context_audio);    *)
(*   - the clock (loop.time()) is counted in milliseconds.                *)
(***************************************************************************)
EXTENDS Integers, Sequences, FiniteSets, TLC

\* ------------------------------------------------------------------ bounds

\* Number of connection slots served by the host.
NumConns == 2

\* Inbound messages and client closes over all connections in one behaviour.
MaxMsgs == 3

\* Inbound messages of one connection not yet read by its handler.
MaxInbox == 2

\* Method calls on the session driven on its own.
MaxOps == 5

\* Arrays buffered by the session driven on its own.
MaxFrames == 3

\* Connections opened over all slots in one behaviour.
MaxConnects == 2

\* The clock stops advancing at MaxClockMs milliseconds.
MaxClockMs == 500

\* Samples per second of the sessions (StreamingSession default: 16000).
SampleRate == 1

\* Longest word sequence over DedupWords given to dedup_repeated_phrases.
MaxWords == 6

\* Largest max_repeats given to dedup_repeated_phrases.
MaxRepeatsArg == 3

\* --------------------------------------------------------- program constants

context_overlap_ms == 1000

partial_max_ms == 3000

partial_interval_ms == 500

\* Default max_repeats of _dedup_text.
dedup_max_repeats == 3

\* Close code sent by the handler for a bad path or an unknown strategy.
ClosePolicy == 1008

\* Steps by which the clock advances, in milliseconds.
TickSteps == {250}

Conns == 1 .. NumConns

\* ------------------------------------------------------------------- text

NoText == <<"<None>">>

\* The characters str.split() takes for whitespace. A character that a
\* string of this module cannot hold is written as its code point.
Whitespace ==
    { " ", "\t", "\n", "\r", "\f", "U+000B", "U+001C", "U+001D", "U+001E", "U+001F",
      "U+0085", "U+00A0", "U+1680", "U+2000", "U+2001", "U+2002", "U+2003",
      "U+2004", "U+2005", "U+2006", "U+2007", "U+2008", "U+2009", "U+200A",
      "U+2028", "U+2029", "U+202F", "U+205F", "U+3000" }

RECURSIVE SplitFrom(_, _, _)
\* str.split(): the maximal runs of non-whitespace characters, in order.
SplitFrom(text, i, cur) ==
    IF i > Len(text)
    THEN IF cur = <<>> THEN <<>> ELSE <<cur>>
    ELSE IF text[i] \in Whitespace
         THEN IF cur = <<>>
              THEN SplitFrom(text, i + 1, <<>>)
              ELSE <<cur>> \o SplitFrom(text, i + 1, <<>>)
         ELSE SplitFrom(text, i + 1, Append(cur, text[i]))

split(text) == SplitFrom(text, 1, <<>>)

RECURSIVE join(_)
\* " ".join(words)
join(words) ==
    IF Len(words) = 0 THEN <<>>
    ELSE IF Len(words) = 1 THEN words[1]
    ELSE words[1] \o <<" ">> \o join(Tail(words))

Min(a, b) == IF a <= b THEN a ELSE b

RECURSIVE CountRepeats(_, _, _, _)
\* The while loop of _dedup_text: consecutive copies of phrase from index i
\* (0-based), counted so far as count.
CountRepeats(words, phrase, i, count) ==
    LET phrase_len == Len(phrase) IN
    IF i + phrase_len <= Len(words)
       /\ SubSeq(words, i + 1, i + phrase_len) = phrase
    THEN CountRepeats(words, phrase, i + phrase_len, count + 1)
    ELSE count

\* The (start, phrase_len) pairs, 0-based start, at which the scan of
\* _dedup_text finds more than max_repeats consecutive copies.
DedupHits(words, max_repeats) ==
    { p \in (0 .. Len(words) - 1) \X (1 .. 4) :
        /\ p[2] <= Min(4, (Len(words) - p[1]) \div 2)
        /\ CountRepeats(words, SubSeq(words, p[1] + 1, p[1] + p[2]), p[1], 0)
             > max_repeats }

\* StreamingSession._dedup_text
dedup_text(text, max_repeats) ==
    LET words == split(text)
        hits  == DedupHits(words, max_repeats)
    IN  IF Len(words) <= max_repeats THEN text
        ELSE IF hits = {} THEN text
        ELSE LET first == CHOOSE p \in hits :
                            \A q \in hits :
                                \/ p[1] < q[1]
                                \/ (p[1] = q[1] /\ p[2] <= q[2])
             IN  join(SubSeq(words, 1, first[1] + first[2]))

\* A scan that returns at max_repeats consecutive copies or more.
dedup_repeated_phrases_at_least(text, max_repeats) ==
    LET words == split(text)
        found(start, phrase_len) ==
            /\ phrase_len <= Min(4, (Len(words) - start) \div 2)
            /\ CountRepeats(words, SubSeq(words, start + 1, start + phrase_len),
                            start, 0) >= max_repeats
        hits == { p \in (0 .. Len(words) - 1) \X (1 .. 4) : found(p[1], p[2]) }
    IN  IF Len(words) <= max_repeats THEN text
        ELSE IF hits = {} THEN text
        ELSE LET first == CHOOSE p \in hits :
                            \A q \in hits :
                                \/ p[1] < q[1]
                                \/ (p[1] = q[1] /\ p[2] <= q[2])
             IN  join(SubSeq(words, 1, first[1] + first[2]))

\* dedup_repeated_phrases of server/utils.py: the scan over start and
\* phrase_len (1 .. min(4, remaining // 2)) returns at the first pair with
\* more than max_repeats consecutive copies.
dedup_repeated_phrases(text, max_repeats) ==
    LET words == split(text)
        found(start, phrase_len) ==
            /\ phrase_len <= Min(4, (Len(words) - start) \div 2)
            /\ CountRepeats(words, SubSeq(words, start + 1, start + phrase_len),
                            start, 0) > max_repeats
        hits == { p \in (0 .. Len(words) - 1) \X (1 .. 4) : found(p[1], p[2]) }
    IN  IF Len(words) <= max_repeats THEN text
        ELSE IF hits = {} THEN text
        ELSE LET first == CHOOSE p \in hits :
                            \A q \in hits :
                                \/ p[1] < q[1]
                                \/ (p[1] = q[1] /\ p[2] <= q[2])
             IN  join(SubSeq(words, 1, first[1] + first[2]))

\* ------------------------------------------------------------------ audio

\* The frames a client puts in audio_frame messages.
Frames == { <<1, 2>> }

RECURSIVE concatenate(_)
\* np.concatenate(chunks).flatten()
concatenate(chunks) ==
    IF chunks = <<>> THEN <<>> ELSE Head(chunks) \o concatenate(Tail(chunks))

RECURSIVE total_samples(_)
\* sum(len(chunk) for chunk in chunks)
total_samples(chunks) ==
    IF chunks = <<>> THEN 0 ELSE Len(Head(chunks)) + total_samples(Tail(chunks))

\* audio[-n:] for n > 0
last_samples(audio, n) ==
    IF Len(audio) > n THEN SubSeq(audio, Len(audio) - n + 1, Len(audio)) ELSE audio

\* int(sample_rate * ms / 1000)
ms_to_samples(ms) == (SampleRate * ms) \div 1000

\* ---------------------------------------------------------------- session

NoAudio == [is_none |-> TRUE, samples |-> <<>>]

SomeAudio(a) == [is_none |-> FALSE, samples |-> a]

\* A constructor that starts the session with the transcript of an earlier
\* one.
StreamingSession_carried(strategy_name) ==
    [ strategy_name       |-> strategy_name,
      audio_buffer        |-> <<>>,
      previous_transcript |-> <<"a">>,
      context_audio       |-> NoAudio ]

\* StreamingSession.__init__
StreamingSession(strategy_name) ==
    [ strategy_name       |-> strategy_name,
      audio_buffer        |-> <<>>,
      previous_transcript |-> <<>>,
      context_audio       |-> NoAudio ]

\* The value of the session slot of a connection that has no session.
NoSession == StreamingSession(<<"<no session>">>)

\* StreamingSession.add_audio
add_audio(s, audio) ==
    [s EXCEPT !.audio_buffer = Append(@, audio)]

\* StreamingSession.get_buffer_duration_ms
get_buffer_duration_ms(s) ==
    IF s.audio_buffer = <<>> THEN 0
    ELSE (total_samples(s.audio_buffer) * 1000) \div SampleRate

\* self.strategy_name in ("context", "hybrid") and self.context_audio is not None
uses_context_now(s) ==
    s.strategy_name \in {<<"context">>, <<"hybrid">>} /\ ~s.context_audio.is_none

\* _get_audio_for_transcription prepending the context for every strategy.
get_audio_for_transcription_any_strategy(s) ==
    IF s.context_audio.is_none THEN concatenate(s.audio_buffer)
    ELSE s.context_audio.samples \o concatenate(s.audio_buffer)

\* StreamingSession._get_audio_for_transcription
get_audio_for_transcription(s) ==
    LET audio == concatenate(s.audio_buffer) IN
    IF uses_context_now(s) THEN s.context_audio.samples \o audio ELSE audio

\* StreamingSession._get_context_duration, in sample periods
get_context_duration(s) ==
    IF uses_context_now(s) THEN Len(s.context_audio.samples) ELSE 0

RECURSIVE collect_tail(_, _, _, _)
\* The loop of _get_tail_audio: walk the buffer backwards from chunk k,
\* prepending chunks until max_samples samples are collected.
collect_tail(buffer, k, chunks, max_samples) ==
    IF k = 0 THEN chunks
    ELSE LET got == <<buffer[k]>> \o chunks IN
         IF total_samples(got) >= max_samples THEN got
         ELSE collect_tail(buffer, k - 1, got, max_samples)

\* StreamingSession._get_tail_audio
get_tail_audio(s, max_ms) ==
    LET max_samples == ms_to_samples(max_ms)
        audio == concatenate(
                   collect_tail(s.audio_buffer, Len(s.audio_buffer), <<>>, max_samples))
    IN  last_samples(audio, max_samples)

\* kwargs["previous_transcript"] of get_partial and get_final: NoText when
\* the key is not set.
prompt_kwarg(s) ==
    IF s.strategy_name \in {<<"prompt">>, <<"hybrid">>} /\ s.previous_transcript # <<>>
    THEN s.previous_transcript
    ELSE NoText

\* --------------------------------------------------------------- recognizer

Segment(start, end, text) == [start |-> start, end |-> end, text |-> text]

TranscriptResult(text, segments) ==
    [ text |-> text, segments |-> segments,
      language |-> "en", processing_time_ms |-> 42 ]

\* The recognizer was not called.
NoResult == TranscriptResult(NoText, <<>>)

\* The results the recognizer (backend.transcribe) returns to the handlers.
HostResults ==
    { TranscriptResult(<<"a">>, << Segment(0, 1, <<"a">>) >>),
      TranscriptResult(<<>>, <<>>) }

\* The results the recognizer (backend.transcribe) may return.
BackendResults ==
    HostResults \cup
    { TranscriptResult(<<"a", " ", "b">>,
                       << Segment(0, 1, <<"a">>), Segment(1, 2, <<"b">>) >>),
      TranscriptResult(<<"b", " ", "b", " ", "b", " ", "b">>,
                       << Segment(0, 2, <<"b", " ", "b", " ", "b", " ", "b">>) >>),
      TranscriptResult(<<"b", "b", "b", "b", "b", "b">>,
                       << Segment(0, 1, <<"b", "b", "b", "b", "b", "b">>) >>) }

\* What a strategy passes to backend.transcribe: PromptStrategy and
\* HybridStrategy forward previous_transcript as initial_prompt,
\* ContextStrategy passes no prompt.
backend_args(strategy_name, audio, previous_transcript) ==
    [ audio          |-> audio,
      initial_prompt |-> IF strategy_name \in {<<"prompt">>, <<"hybrid">>}
                         THEN previous_transcript ELSE NoText ]

NoCall == [audio |-> <<>>, initial_prompt |-> NoText]

RECURSIVE trim_segments(_, _)
\* [Segment(s.start - d, s.end - d, s.text) for s in segments if s.end > d]
trim_segments(segments, context_duration) ==
    IF segments = <<>> THEN <<>>
    ELSE LET seg  == Head(segments)
             rest == trim_segments(Tail(segments), context_duration)
         IN  IF seg.end > context_duration
             THEN << Segment(seg.start - context_duration,
                             seg.end - context_duration, seg.text) >> \o rest
             ELSE rest

\* [s.text for s in segments]
segment_texts(segments) == [i \in 1 .. Len(segments) |-> segments[i].text]

\* strategy.transcribe(audio, sample_rate, **kwargs) as the session calls it
\* (never with context_audio): PromptStrategy returns the recognizer's
\* result, ContextStrategy and HybridStrategy rebuild segments and text with
\* a context duration of 0.
strategy_transcribe(strategy_name, backend_result) ==
    IF strategy_name = <<"prompt">> THEN backend_result
    ELSE LET new_segments == trim_segments(backend_result.segments, 0) IN
         [ backend_result EXCEPT
             !.text = join(segment_texts(new_segments)),
             !.segments = new_segments ]

\* ------------------------------------------------- get_partial / get_final

EmptyPartial ==
    [type |-> "partial", text |-> <<>>, processing_time_ms |-> 0]

EmptyFinal ==
    [ type |-> "final", text |-> <<>>, segments |-> <<>>,
      language |-> "unknown", processing_time_ms |-> 0 ]

\* get_partial giving the recognizer what get_final gives it: the whole
\* buffer, after the context.
get_partial_call_whole_buffer(s) ==
    backend_args(s.strategy_name, get_audio_for_transcription(s), prompt_kwarg(s))

\* The recognizer call of get_partial (buffer not empty).
get_partial_call(s) ==
    backend_args(s.strategy_name, get_tail_audio(s, partial_max_ms), prompt_kwarg(s))

\* get_partial finalizing the segment as get_final does.
get_partial_session_clearing(s, backend_result) ==
    [s EXCEPT !.audio_buffer = <<>>]

\* The session after get_partial: no field is assigned.
get_partial_session(s, backend_result) == s

\* The value get_partial returns.
get_partial(s, backend_result) ==
    IF s.audio_buffer = <<>> THEN EmptyPartial
    ELSE LET result == strategy_transcribe(s.strategy_name, backend_result) IN
         [ type |-> "partial",
           text |-> dedup_text(result.text, dedup_max_repeats),
           processing_time_ms |-> result.processing_time_ms ]

\* The recognizer call of get_final (buffer not empty).
get_final_call(s) ==
    backend_args(s.strategy_name, get_audio_for_transcription(s), prompt_kwarg(s))

\* get_final without its context filter.
get_final_segments_untrimmed(s, result) == result.segments

\* segments and text of get_final after the context filter.
get_final_segments(s, result) ==
    IF uses_context_now(s)
    THEN trim_segments(result.segments, get_context_duration(s))
    ELSE result.segments

get_final_text(s, result) ==
    IF uses_context_now(s)
    THEN join(segment_texts(get_final_segments(s, result)))
    ELSE result.text

\* The value get_final returns.
get_final(s, backend_result) ==
    IF s.audio_buffer = <<>> THEN EmptyFinal
    ELSE LET result == strategy_transcribe(s.strategy_name, backend_result) IN
         [ type |-> "final",
           text |-> get_final_text(s, result),
           segments |-> get_final_segments(s, result),
           language |-> result.language,
           processing_time_ms |-> result.processing_time_ms ]

\* get_final taking the next context from the recognizer's input, context
\* included, instead of the raw buffer.
get_final_session_context_from_input(s, backend_result) ==
    IF s.audio_buffer = <<>> THEN s
    ELSE LET result == strategy_transcribe(s.strategy_name, backend_result)
         IN  [ s EXCEPT
                 !.context_audio = SomeAudio(last_samples(get_audio_for_transcription(s),
                                                          ms_to_samples(context_overlap_ms))),
                 !.previous_transcript = get_final_text(s, result),
                 !.audio_buffer = <<>> ]

\* The session after get_final.
get_final_session(s, backend_result) ==
    IF s.audio_buffer = <<>> THEN s
    ELSE LET result == strategy_transcribe(s.strategy_name, backend_result)
             raw_audio == concatenate(s.audio_buffer)
             overlap_samples == ms_to_samples(context_overlap_ms)
         IN  [ s EXCEPT
                 !.context_audio = SomeAudio(last_samples(raw_audio, overlap_samples)),
                 !.previous_transcript = get_final_text(s, result),
                 !.audio_buffer = <<>> ]

\* -------------------------------------------------------------------- paths

\* A request path is a sequence of tokens: "/" or a name without "/".
Path(names) ==
    LET RECURSIVE build(_)
        build(ns) == IF ns = <<>> THEN <<>> ELSE <<"/", Head(ns)>> \o build(Tail(ns))
    IN  build(names)

\* The paths clients request: the three endpoints, one of them with a
\* trailing "/", a path with a further segment after the strategy, and
\* paths without a strategy, with an unknown one, with another prefix and
\* with an empty segment.
Paths ==
    { Path(<<"ws", "transcribe", "prompt">>),
      Path(<<"ws", "transcribe", "context">>),
      Path(<<"ws", "transcribe", "prompt", "x">>),
      Path(<<"ws", "transcribe", "hybrid">>) \o <<"/">>,
      Path(<<"ws", "transcribe">>),
      Path(<<"ws", "transcribe", "bogus">>),
      Path(<<"api", "transcribe", "prompt">>),
      <<"/", "ws", "/", "transcribe", "/", "/", "prompt">> }

RECURSIVE strip_slashes(_)
\* path.strip("/")
strip_slashes(path) ==
    IF path = <<>> THEN path
    ELSE IF Head(path) = "/" THEN strip_slashes(Tail(path))
    ELSE IF path[Len(path)] = "/" THEN strip_slashes(SubSeq(path, 1, Len(path) - 1))
    ELSE path

RECURSIVE split_slashes(_, _)
\* str.split("/"): cur is the part being read
split_slashes(path, cur) ==
    IF path = <<>> THEN <<cur>>
    ELSE IF Head(path) = "/" THEN <<cur>> \o split_slashes(Tail(path), <<>>)
    ELSE split_slashes(Tail(path), Append(cur, Head(path)))

\* parts = path.strip("/").split("/")
path_parts(path) == split_slashes(strip_slashes(path), <<>>)

\* The keys of the strategies dict of create_app.
strategies == { <<"prompt">>, <<"context">>, <<"hybrid">> }

\* len(parts) >= 3 and parts[0] == "ws" and parts[1] == "transcribe"
path_is_valid(parts) ==
    Len(parts) >= 3 /\ parts[1] = <<"ws">> /\ parts[2] = <<"transcribe">>

\* strategy_name in strategies
strategy_known(strategy_name) == strategy_name \in strategies

\* ----------------------------------------------------------------- messages

NoPayload == [enc |-> "missing", samples |-> <<>>]

ValidPayload(frame) == [enc |-> "valid", samples |-> frame]

InvalidPayload == [enc |-> "invalid", samples |-> <<>>]

RawMessage(syntax, type, audio) == [syntax |-> syntax, type |-> type, audio |-> audio]

\* A text frame that is not JSON.
NotJson == RawMessage("not_json", "", NoPayload)

\* A JSON text whose value is not an object.
JsonArray == RawMessage("array", "", NoPayload)

AudioFrame(audio) == RawMessage("object", "audio_frame", audio)

VadEnd == RawMessage("object", "vad_end", NoPayload)

\* The batch message of client/main.py, sent by BatchClient and StreamingClient.
Transcribe == RawMessage("object", "transcribe", ValidPayload(<<1>>))

\* A JSON object without a "type" key.
NoType == RawMessage("object", "<None>", NoPayload)

\* The end of the inbound stream: the client closed the connection.
CloseFrame == RawMessage("close", "", NoPayload)

\* No message read yet.
NoMessage == RawMessage("none", "", NoPayload)

\* The messages clients send.
Messages ==
    { NotJson, JsonArray, VadEnd, Transcribe, NoType,
      AudioFrame(NoPayload), AudioFrame(InvalidPayload) }
    \cup { AudioFrame(ValidPayload(f)) : f \in Frames }

\* A dispatch that takes a message without a "type" key for the end of the
\* utterance.
msg_type_or_vad_end(m) == IF m.type = "<None>" THEN "vad_end" ELSE m.type

\* msg_type = message.get("type")
msg_type(m) == m.type

\* json.loads(raw_message) raises json.JSONDecodeError
json_decode_error(m) == m.syntax = "not_json"

\* message.get(...) raises AttributeError: the JSON value is not an object
not_an_object(m) == m.syntax = "array"

\* base64.b64decode / np.frombuffer raise on the "audio" value
decode_raises(m) == m.audio.enc = "invalid"

\* np.frombuffer(base64.b64decode(message.get("audio", "")), dtype=np.float32)
decode_audio(m) == IF m.audio.enc = "valid" THEN m.audio.samples ELSE <<>>

\* ------------------------------------------------------------------- client

\* Chunks buffered by the client over one behaviour.
MaxChunks == 6

\* Constructor arguments of BatchClient and StreamingClient, in
\* milliseconds, chosen so that a few chunks reach each threshold.
silence_threshold_ms == 60

max_speech_ms == 120

min_speech_ms == 90

agent_cooldown_ms == 90

pause_ms == 30

silence_ms == 60

min_chunk_ms == 60

\* min_energy, on a scale of whole energy levels.
min_energy == 2

\* Defaults of the constructors.
client_sample_rate == 16000

chunk_ms == 30

\* The longest time between two dequeues and the longest wait for the
\* agent, in frame periods.
MaxElapsedChunks == 3
MaxWaitChunks == 1

onset_threshold == 3

\* AudioCapture.chunk_size: samples of every chunk the capture delivers
chunk_size == (client_sample_rate * chunk_ms) \div 1000

\* BatchClient.silence_chunks = int(silence_threshold_ms / chunk_ms)
batch_silence_chunks == silence_threshold_ms \div chunk_ms

\* StreamingClient.pause_chunks and StreamingClient.silence_chunks
pause_chunks == pause_ms \div chunk_ms

silence_chunks == silence_ms \div chunk_ms

Max(a, b) == IF a >= b THEN a ELSE b

\* What a captured chunk is to the speech gate: the verdict of the VAD and
\* the chunk's energy, sqrt(mean(chunk ** 2)).
Chunk(vad, energy) == [vad |-> vad, energy |-> energy]

Chunks ==
    { Chunk(TRUE, min_energy), Chunk(TRUE, min_energy + 1), Chunk(TRUE, min_energy - 1),
      Chunk(FALSE, min_energy), Chunk(FALSE, min_energy - 1) }

NoChunk == Chunk(FALSE, 0)

\* _detect_speech: vad_speech and energy >= self.min_energy
detect_speech(chunk) == chunk.vad /\ chunk.energy >= min_energy

\* SpeechState(); audio_chunks holds the numbers of the buffered chunks.
SpeechState ==
    [ is_speaking   |-> FALSE,
      silence_count |-> 0,
      onset_count   |-> 0,
      audio_chunks  |-> <<>>,
      energy_sum    |-> 0,
      energy_count  |-> 0 ]

\* A reset that keeps the buffered chunks.
reset_keeping_audio(state) ==
    [SpeechState EXCEPT !.audio_chunks = state.audio_chunks]

\* SpeechState.reset
reset(state) == SpeechState

\* SpeechState.start_speaking
start_speaking(state) == [state EXCEPT !.is_speaking = TRUE]

\* An add_chunk that buffers the chunk without counting its energy.
add_chunk_uncounted(state, chunk_no, energy) ==
    [state EXCEPT !.audio_chunks = Append(@, chunk_no)]

\* SpeechState.add_chunk
add_chunk(state, chunk_no, energy) ==
    [ state EXCEPT !.audio_chunks = Append(@, chunk_no),
                   !.energy_sum = @ + energy,
                   !.energy_count = @ + 1 ]

\* SpeechState.duration_ms and the same sum in StreamingClient.run
duration_ms(audio_chunks) ==
    (Len(audio_chunks) * chunk_size * 1000) \div client_sample_rate

\* state.avg_energy() < e, with avg_energy = energy_sum / max(energy_count, 1)
avg_energy_below(state, e) ==
    state.energy_sum < e * Max(state.energy_count, 1)

\* An onset count that is not reset by a chunk without speech.
batch_onset_sticky(state, speech_detected) ==
    IF speech_detected
    THEN LET s1 == [state EXCEPT !.silence_count = 0] IN
         IF ~s1.is_speaking
         THEN LET s2 == [s1 EXCEPT !.onset_count = @ + 1] IN
              IF s2.onset_count >= onset_threshold THEN start_speaking(s2) ELSE s2
         ELSE s1
    ELSE state

\* The onset debounce of BatchClient.run.
batch_onset(state, speech_detected) ==
    IF speech_detected
    THEN LET s1 == [state EXCEPT !.silence_count = 0] IN
         IF ~s1.is_speaking
         THEN LET s2 == [s1 EXCEPT !.onset_count = @ + 1] IN
              IF s2.onset_count >= onset_threshold THEN start_speaking(s2) ELSE s2
         ELSE s1
    ELSE [state EXCEPT !.onset_count = 0]

\* The onset debounce of StreamingClient.run, which also counts the silence.
stream_onset(state, speech_detected) ==
    IF speech_detected
    THEN LET s1 == [state EXCEPT !.silence_count = 0] IN
         IF ~s1.is_speaking
         THEN LET s2 == [s1 EXCEPT !.onset_count = @ + 1] IN
              IF s2.onset_count >= onset_threshold THEN start_speaking(s2) ELSE s2
         ELSE s1
    ELSE LET s1 == [state EXCEPT !.onset_count = 0] IN
         IF s1.is_speaking THEN [s1 EXCEPT !.silence_count = @ + 1] ELSE s1

\* "if state.is_speaking: state.add_chunk(chunk, energy)"
batch_collect(state, chunk_no, energy) ==
    IF state.is_speaking THEN add_chunk(state, chunk_no, energy) ELSE state

\* "if is_speaking: audio_chunks.append(chunk)"
stream_collect(state, chunk_no) ==
    IF state.is_speaking
    THEN [state EXCEPT !.audio_chunks = Append(@, chunk_no)]
    ELSE state

\* A pause taken only by the chunk that brings the silence to pause_chunks.
stream_pause_once(state) ==
    /\ state.is_speaking
    /\ state.silence_count = pause_chunks
    /\ state.audio_chunks # <<>>

\* "if is_speaking and silence_count >= self.pause_chunks and audio_chunks"
stream_pause(state) ==
    /\ state.is_speaking
    /\ state.silence_count >= pause_chunks
    /\ state.audio_chunks # <<>>

\* A pause that sends its chunks whatever their duration.
stream_pause_sends_any_length(state, is_connected) ==
    stream_pause(state) /\ is_connected

\* The pause sends its chunks:
\* "if duration_ms >= self.min_chunk_ms and self._connected"
stream_pause_sends(state, is_connected) ==
    /\ stream_pause(state)
    /\ duration_ms(state.audio_chunks) >= min_chunk_ms
    /\ is_connected

\* "if is_speaking and silence_count >= self.silence_chunks"
stream_final(state) ==
    state.is_speaking /\ state.silence_count >= silence_chunks

\* The end of the utterance sends what is left of its chunks: "if
\* audio_chunks", then
\* "if duration_ms >= self.min_chunk_ms and self._connected"
stream_final_sends(state, audio_chunks, is_connected) ==
    /\ stream_final(state)
    /\ audio_chunks # <<>>
    /\ duration_ms(audio_chunks) >= min_chunk_ms
    /\ is_connected

\* The state _should_finalize leaves: it counts the silence while speaking.
should_finalize_state(state, speech_detected) ==
    IF state.is_speaking /\ ~speech_detected
    THEN [state EXCEPT !.silence_count = @ + 1]
    ELSE state

\* _should_finalize without the cap on the duration.
should_finalize_silence_only(state, speech_detected) ==
    LET after == should_finalize_state(state, speech_detected) IN
    /\ state.is_speaking
    /\ ~speech_detected
    /\ after.silence_count >= batch_silence_chunks

\* BatchClient._should_finalize
should_finalize(state, speech_detected) ==
    LET after == should_finalize_state(state, speech_detected) IN
    /\ state.is_speaking
    /\ \/ ~speech_detected /\ after.silence_count >= batch_silence_chunks
       \/ duration_ms(after.audio_chunks) >= max_speech_ms

\* The thresholds taken as exclusive.
too_short_or_quiet_exclusive(state) ==
    \/ duration_ms(state.audio_chunks) <= min_speech_ms
    \/ state.energy_sum <= min_energy * Max(state.energy_count, 1)

\* "duration_ms < self.min_speech_ms or avg_energy < self.min_energy"
too_short_or_quiet(state) ==
    \/ duration_ms(state.audio_chunks) < min_speech_ms
    \/ avg_energy_below(state, min_energy)

\* A loop that never finds itself before the deadline.
cooldown_ignored(left, elapsed) == 0

\* The time left to _agent_cooldown_until when the next chunk is dequeued,
\* elapsed milliseconds after the last one:
\* time.perf_counter() < self._agent_cooldown_until holds while it is
\* positive.
cooldown_after_chunk(left, elapsed) == Max(left - elapsed, 0)

\* The times between two dequeues: none for a chunk that waits in the
\* queue, a frame period for a loop that keeps up with the capture, more
\* after a turn that waited.
ElapsedTimes == { k * chunk_ms : k \in 0 .. MaxElapsedChunks }

\* The next dequeue is not before the reply that set the deadline to
\* agent_cooldown_ms after it, so what is left beyond agent_cooldown_ms has
\* passed.
Elapsed(left) == { e \in ElapsedTimes : e >= left - agent_cooldown_ms }

\* The times from the dequeue of a chunk to the return of the
\* send_transcription of its turn.
Waits == { k * chunk_ms : k \in 0 .. MaxWaitChunks }

\* -------------------------------------------------------------------- state

VARIABLES
    now,                \* loop.time(), in milliseconds
    conn,               \* per connection: "none", "open", "rejected", "ended", "failed"
    path,               \* per connection: websocket.request.path
    close_code,         \* per connection: code of the handler's websocket.close, 0 if none
    close_reason,       \* per connection: reason of the handler's websocket.close
    session,            \* per connection: the handler's StreamingSession
    last_partial_time,  \* per connection: the handler's last_partial_time
    last_event_time,    \* per connection: time of its accept, last reply sent or
                        \* last vad_end read, whichever is latest
    pc,                 \* per connection: where the handler is suspended
    inbox,              \* per connection: inbound messages not yet read by the handler
    n_handled,          \* per connection: number of inbound messages read by the handler
    current,            \* per connection: the inbound message read last
    trigger,            \* per connection: number of the message whose reply is awaited
    call,               \* per connection: arguments of the latest recognizer call
    pending,            \* per connection: value awaited from the executor, to be sent
    outbox,             \* per connection: type and trigger of each reply sent, in order
    last_reply,         \* per connection: the reply sent last
    n_sent,             \* inbound messages and client closes so far
    n_connects,         \* connections opened so far
    api_session,        \* a StreamingSession driven through its methods
    api_op,             \* the method called last on api_session
    api_call,           \* arguments of the recognizer call that method made
    api_reply,          \* the value that method returned
    api_result,         \* what the recognizer returned to that method
    api_ops,            \* method calls so far
    mode,               \* the client that runs: "batch" or "streaming"
    started,            \* run() has made its first _connect
    server_up,          \* the server accepts connections
    transport,          \* the client's websocket: "none", "open" or "closed"
    connected,          \* the client's _connected flag
    gate,               \* the speech gate: SpeechState, or the locals of StreamingClient.run
    utterance_transcripts, \* StreamingClient.run: transcripts of the utterance so far
    cooldown_left,      \* milliseconds from the last dequeue to _agent_cooldown_until,
                        \* 0 once it has passed
    elapsed_ms,         \* milliseconds between the last two dequeues
    n_chunks,           \* chunks buffered so far
    tick,               \* flips at every chunk dequeued
    frame_op,           \* what the loop did with the last chunk: "cooldown" or "frame"
    chunk,              \* the chunk dequeued last
    attempt,            \* the _send_and_receive made for the last chunk, if any
    finalized,          \* the last chunk ended the utterance
    summary,            \* the last chunk produced the utterance's complete transcript
    speech_run,         \* speech-detected chunks in a row, up to onset_threshold
    silence_run,        \* chunks without speech in a row, up to the silence threshold
    sent_upto,          \* highest chunk number passed to _send_and_receive
    held,               \* the chunk whose turn waits in "await self._ws.recv()", if any
    agent_call,         \* the last turn's send_transcription: "none" (not called),
                        \* "pending" (awaited), "null" (returned None) or "reply"
    final_branch        \* StreamingClient.run: what the end-of-utterance branch of
                        \* the last turn found and did

host_vars ==
    << now, conn, path, close_code, close_reason, session, last_partial_time, last_event_time, pc,
       inbox, n_handled, current, trigger, call, pending, outbox, last_reply,
       n_sent, n_connects >>

api_vars == << api_session, api_op, api_call, api_reply, api_result, api_ops >>

client_vars ==
    << mode, started, server_up, transport, connected, gate, utterance_transcripts,
       cooldown_left, elapsed_ms, n_chunks, tick, frame_op, chunk, attempt, finalized,
       summary, speech_run, silence_run, sent_upto, held, agent_call, final_branch >>

\* The call of a function of server/utils.py: its arguments and its result.
VARIABLES
    util_text,          \* the text argument
    util_max_repeats,   \* the max_repeats argument
    util_result         \* the value returned, NoText before the call

util_vars == << util_text, util_max_repeats, util_result >>

\* The reply path of the client: the AgentClient, the playback of its
\* reply and the queue of the AudioCapture.
VARIABLES
    agent_ws,           \* AgentClient._ws: "none", "open" or "closed" (by the agent)
    agent_connected,    \* AgentClient._connected
    agent_sent,         \* numbers of the requests the agent has still to answer
    agent_replies,      \* replies waiting in _ws, each the number of the request it answers
    agent_request,      \* number of the request send_transcription serves, 0 before the first
    agent_response,     \* what send_transcription returned for agent_request
    n_requests,         \* calls of send_transcription so far
    reply_pc,           \* the await run() stands in: "loop" (get_chunk), "got" (the
                        \* executor has the block), "stt", "connect", "sending" (send of
                        \* send_transcription), "agent" (its recv), "tts" (speak),
                        \* "connecting" (connect() called by itself), in its finally block
                        \* "fin_reconnect", "fin_ws", "closing" (AgentClient.close);
                        \* "returned" when send_transcription has returned, "done"
                        \* once run() or close() has ended, "idle" before a first call
    tts,                \* a tts_client is configured
    capture_queue,      \* AudioCapture.audio_queue: for each block, whether it was
                        \* captured during speak()
    mic_cooldown_left,  \* milliseconds from perf_counter() to _agent_cooldown_until
    dequeued,           \* the block dequeued last and what the loop did with it
    to_callback,        \* milliseconds from perf_counter() to the next capture callback
    loop_lag,           \* milliseconds this turn of the loop has had a block to go on
                        \* with; LagCap once a turn took more than handoff_ms
    orphan_get          \* a get_chunk of the executor outlives the cancelled run()

agent_vars ==
    << agent_ws, agent_connected, agent_sent, agent_replies, agent_request,
       agent_response, n_requests, reply_pc, tts, capture_queue,
       mic_cooldown_left, dequeued, to_callback, loop_lag, orphan_get >>

vars == << host_vars, api_vars, client_vars, util_vars, agent_vars >>

\* The end-of-utterance branch of StreamingClient.run as a turn took it: the
\* audio_chunks it found and whether it called _send_and_receive.
FinalBranch(audio_chunks, sends) ==
    [entered |-> TRUE, audio_chunks |-> audio_chunks, sends |-> sends]

\* The turn did not take the end-of-utterance branch.
NoFinalBranch == [entered |-> FALSE, audio_chunks |-> <<>>, sends |-> FALSE]

\* No _send_and_receive was made.
NoAttempt == [audio |-> <<>>, energy_sum |-> 0, outcome |-> "none"]

\* The client after construction: _ws = None, _connected = False,
\* _agent_cooldown_until = 0.0.
ClientConstructed ==
    /\ started = FALSE
    /\ transport = "none"
    /\ connected = FALSE
    /\ gate = SpeechState
    /\ utterance_transcripts = 0
    /\ cooldown_left = 0
    /\ elapsed_ms = 0
    /\ n_chunks = 0
    /\ tick = 0
    /\ frame_op = "none"
    /\ chunk = NoChunk
    /\ attempt = NoAttempt
    /\ finalized = FALSE
    /\ summary = FALSE
    /\ speech_run = 0
    /\ silence_run = 0
    /\ sent_upto = 0
    /\ held = NoChunk
    /\ agent_call = "none"
    /\ final_branch = NoFinalBranch

\* No client runs.
NoClient ==
    /\ mode = "none"
    /\ server_up = FALSE
    /\ ClientConstructed

NoReply == [type |-> "none"]

\* An entry of outbox: the type of a reply, the number of the inbound message
\* whose handling prepared it, and the type of the message read last when
\* it was sent.
Sent(type, k, by) == [type |-> type, trigger |-> k, by |-> by]

\* send_transcription has returned nothing: reply_to is 0 for None.
NoResponse == [request |-> 0, reply_to |-> 0]

\* No block was dequeued.
NoFrame == [playback |-> FALSE, op |-> "none"]

\* The AgentClient and the AudioCapture after construction: _ws = None,
\* _connected = False, an empty queue, _agent_cooldown_until = 0.0.
AgentConstructed ==
    /\ agent_ws = "none"
    /\ agent_connected = FALSE
    /\ agent_sent = <<>>
    /\ agent_replies = <<>>
    /\ agent_request = 0
    /\ agent_response = NoResponse
    /\ n_requests = 0
    /\ reply_pc = "loop"
    /\ capture_queue = <<>>
    /\ mic_cooldown_left = 0
    /\ dequeued = NoFrame
    /\ to_callback = chunk_ms
    /\ loop_lag = 0
    /\ orphan_get = FALSE

\* No agent and no playback are configured.
NoAgent ==
    /\ tts = FALSE
    /\ AgentConstructed

\* No function of server/utils.py is under call.
NoUtil ==
    /\ util_text = <<>>
    /\ util_max_repeats = dedup_max_repeats
    /\ util_result = NoText

HostInit ==
    /\ now = 0
    /\ conn = [c \in Conns |-> "none"]
    /\ path = [c \in Conns |-> <<>>]
    /\ close_code = [c \in Conns |-> 0]
    /\ close_reason = [c \in Conns |-> <<>>]
    /\ session = [c \in Conns |-> NoSession]
    /\ last_partial_time = [c \in Conns |-> 0]
    /\ last_event_time = [c \in Conns |-> 0]
    /\ pc = [c \in Conns |-> "done"]
    /\ inbox = [c \in Conns |-> <<>>]
    /\ n_handled = [c \in Conns |-> 0]
    /\ current = [c \in Conns |-> NoMessage]
    /\ trigger = [c \in Conns |-> 0]
    /\ call = [c \in Conns |-> NoCall]
    /\ pending = [c \in Conns |-> NoReply]
    /\ outbox = [c \in Conns |-> <<>>]
    /\ last_reply = [c \in Conns |-> NoReply]
    /\ n_sent = 0
    /\ n_connects = 0

Init ==
    /\ HostInit
    /\ NoUtil
    /\ NoAgent
    /\ api_session = NoSession
    /\ api_op = "none"
    /\ api_call = NoCall
    /\ api_reply = NoReply
    /\ api_result = NoResult
    /\ api_ops = 0
    /\ NoClient

\* ------------------------------------------------------------------ handler

\* A handler that runs its recognizer calls in a task of their own and goes
\* on reading.
can_receive_while_running(p) == p \in {"recv", "partial_run", "final_run"}

\* A handler that sends its replies from a task of their own and goes on
\* reading.
can_receive_while_sending(p) == p \in {"recv", "partial_send", "final_send"}

\* The handler reads the next inbound message only at the top of its
\* "async for raw_message in websocket" loop.
can_receive(p) == p = "recv"

\* The partial condition without the timer: any frame that leaves audio in
\* the buffer starts a partial.
should_send_partial_untimed(s, current_time, last_time) ==
    get_buffer_duration_ms(s) > 0

\* elapsed_ms >= partial_interval_ms and session.get_buffer_duration_ms() > 0
should_send_partial(s, current_time, last_time) ==
    /\ current_time - last_time >= partial_interval_ms
    /\ get_buffer_duration_ms(s) > 0

\* if session.get_buffer_duration_ms() > 0  (vad_end)
should_send_final(s) == get_buffer_duration_ms(s) > 0

\* A connection is accepted and its handler runs up to its first await on
\* the inbound stream: path check, strategy check, session creation.
\* Connection slots are taken in increasing order; a slot whose connection
\* is over is reused by a later connection (a reconnect).
Accept(c, p) ==
    /\ UNCHANGED << api_vars, client_vars, util_vars, agent_vars >>
    /\ conn[c] # "open"
    /\ \A b \in Conns : b < c => conn[b] # "none"
    /\ n_connects < MaxConnects
    /\ n_connects' = n_connects + 1
    /\ path' = [path EXCEPT ![c] = p]
    /\ inbox' = [inbox EXCEPT ![c] = <<>>]
    /\ n_handled' = [n_handled EXCEPT ![c] = 0]
    /\ current' = [current EXCEPT ![c] = NoMessage]
    /\ trigger' = [trigger EXCEPT ![c] = 0]
    /\ call' = [call EXCEPT ![c] = NoCall]
    /\ pending' = [pending EXCEPT ![c] = NoReply]
    /\ outbox' = [outbox EXCEPT ![c] = <<>>]
    /\ last_reply' = [last_reply EXCEPT ![c] = NoReply]
    /\ LET parts == path_parts(p) IN
       IF ~path_is_valid(parts)
       THEN /\ conn' = [conn EXCEPT ![c] = "rejected"]
            /\ close_code' = [close_code EXCEPT ![c] = ClosePolicy]
            /\ close_reason' = [close_reason EXCEPT ![c] = <<"Invalid path">>]
            /\ session' = [session EXCEPT ![c] = NoSession]
            /\ pc' = [pc EXCEPT ![c] = "done"]
            /\ UNCHANGED << last_partial_time, last_event_time >>
       ELSE IF ~strategy_known(parts[3])
       THEN /\ conn' = [conn EXCEPT ![c] = "rejected"]
            /\ close_code' = [close_code EXCEPT ![c] = ClosePolicy]
            /\ close_reason' =
                 [close_reason EXCEPT ![c] = <<"Unknown strategy: ">> \o parts[3]]
            /\ session' = [session EXCEPT ![c] = NoSession]
            /\ pc' = [pc EXCEPT ![c] = "done"]
            /\ UNCHANGED << last_partial_time, last_event_time >>
       ELSE /\ conn' = [conn EXCEPT ![c] = "open"]
            /\ close_code' = [close_code EXCEPT ![c] = 0]
            /\ close_reason' = [close_reason EXCEPT ![c] = <<>>]
            /\ session' = [session EXCEPT ![c] = StreamingSession(parts[3])]
            /\ last_partial_time' = [last_partial_time EXCEPT ![c] = now]
            /\ last_event_time' = [last_event_time EXCEPT ![c] = now]
            /\ pc' = [pc EXCEPT ![c] = "recv"]
    /\ UNCHANGED << now, n_sent >>

\* The client sends a message; it waits in the connection's inbound queue.
\* A message sent to a connection the handler has rejected is never read.
ClientSend(c, m) ==
    /\ UNCHANGED << api_vars, client_vars, util_vars, agent_vars >>
    /\ conn[c] \in {"open", "rejected"}
    /\ \A i \in 1 .. Len(inbox[c]) : inbox[c][i] # CloseFrame
    /\ n_sent < MaxMsgs
    /\ Len(inbox[c]) < MaxInbox
    /\ n_sent' = n_sent + 1
    /\ inbox' = [inbox EXCEPT ![c] = Append(@, m)]
    /\ UNCHANGED << now, conn, path, close_code, close_reason, session,
                    last_partial_time, last_event_time, pc, n_handled, current, trigger, call, pending,
                    outbox, last_reply, n_connects >>

\* The client closes the connection: the inbound stream ends after the
\* messages already sent.
ClientClose(c) ==
    /\ UNCHANGED << api_vars, client_vars, util_vars, agent_vars >>
    /\ conn[c] = "open"
    /\ \A i \in 1 .. Len(inbox[c]) : inbox[c][i] # CloseFrame
    /\ n_sent < MaxMsgs
    /\ n_sent' = n_sent + 1
    /\ inbox' = [inbox EXCEPT ![c] = Append(@, CloseFrame)]
    /\ UNCHANGED << now, conn, path, close_code, close_reason, session,
                    last_partial_time, last_event_time, pc, n_handled, current, trigger, call, pending,
                    outbox, last_reply, n_connects >>

\* The handler leaves its loop: normally ("ended": end of stream, or the
\* JSONDecodeError caught outside the loop) or by an exception ("failed").
\* The connection is closed, its session (a local of the handler) is
\* released and what the client sent and the handler did not read is lost.
HandlerExit(c, how) ==
    /\ conn' = [conn EXCEPT ![c] = how]
    /\ pc' = [pc EXCEPT ![c] = "done"]
    /\ session' = [session EXCEPT ![c] = NoSession]
    /\ last_partial_time' = [last_partial_time EXCEPT ![c] = 0]
    /\ last_event_time' = [last_event_time EXCEPT ![c] = 0]
    /\ inbox' = [inbox EXCEPT ![c] = <<>>]
    /\ pending' = [pending EXCEPT ![c] = NoReply]

\* One iteration of "async for raw_message in websocket" up to its first
\* await: json.loads, the dispatch on msg_type, and for an audio_frame or
\* a vad_end the decision to offload get_partial or get_final.
HandleMessage(c) ==
    /\ UNCHANGED << api_vars, client_vars, util_vars, agent_vars >>
    /\ conn[c] = "open"
    /\ can_receive(pc[c])
    /\ inbox[c] # <<>>
    /\ LET m == Head(inbox[c])
           read == /\ inbox' = [inbox EXCEPT ![c] = Tail(@)]
                   /\ UNCHANGED pending
       IN
       /\ n_handled' = [n_handled EXCEPT ![c] = @ + 1]
       /\ current' = [current EXCEPT ![c] = m]
       /\ IF m = CloseFrame \/ json_decode_error(m)
          THEN /\ HandlerExit(c, "ended")
               /\ UNCHANGED << call, trigger >>
          ELSE IF not_an_object(m)
          THEN /\ HandlerExit(c, "failed")
               /\ UNCHANGED << call, trigger >>
          ELSE IF msg_type(m) = "audio_frame"
          THEN IF decode_raises(m)
               THEN /\ HandlerExit(c, "failed")
                    /\ UNCHANGED << call, trigger >>
               ELSE LET s == add_audio(session[c], decode_audio(m)) IN
                    /\ read
                    /\ session' = [session EXCEPT ![c] = s]
                    /\ IF should_send_partial(s, now, last_partial_time[c])
                       THEN /\ pc' = [pc EXCEPT ![c] = "partial_run"]
                            /\ call' = [call EXCEPT ![c] = get_partial_call(s)]
                            /\ trigger' = [trigger EXCEPT ![c] = n_handled[c] + 1]
                       ELSE UNCHANGED << pc, call, trigger >>
                    /\ UNCHANGED << conn, last_partial_time, last_event_time >>
          ELSE IF msg_type(m) = "vad_end"
          THEN IF should_send_final(session[c])
               THEN /\ read
                    /\ pc' = [pc EXCEPT ![c] = "final_run"]
                    /\ call' = [call EXCEPT ![c] = get_final_call(session[c])]
                    /\ trigger' = [trigger EXCEPT ![c] = n_handled[c] + 1]
                    /\ UNCHANGED << conn, session, last_partial_time >>
                    /\ last_event_time' = [last_event_time EXCEPT ![c] = now]
               ELSE /\ read
                    /\ last_partial_time' = [last_partial_time EXCEPT ![c] = now]
                    /\ last_event_time' = [last_event_time EXCEPT ![c] = now]
                    /\ UNCHANGED << conn, session, pc, call, trigger >>
          ELSE /\ read
               /\ UNCHANGED << conn, session, last_partial_time, last_event_time, pc, call, trigger >>
    /\ UNCHANGED << now, path, close_code, close_reason, outbox,
                    last_reply, n_sent, n_connects >>

\* The recognizer call offloaded by run_in_executor returns: get_partial or
\* get_final runs to its end in a worker thread of the default executor and
\* the handler resumes with its value.
ExecutorReturn(c, backend_result) ==
    /\ UNCHANGED << api_vars, client_vars, util_vars, agent_vars >>
    /\ pc[c] \in {"partial_run", "final_run"}
    /\ IF pc[c] = "partial_run"
       THEN /\ pending' = [pending EXCEPT ![c] = get_partial(session[c], backend_result)]
            /\ session' = [session EXCEPT ![c] = get_partial_session(@, backend_result)]
            /\ pc' = [pc EXCEPT ![c] = "partial_send"]
       ELSE /\ pending' = [pending EXCEPT ![c] = get_final(session[c], backend_result)]
            /\ session' = [session EXCEPT ![c] = get_final_session(@, backend_result)]
            /\ pc' = [pc EXCEPT ![c] = "final_send"]
    /\ UNCHANGED << now, conn, path, close_code, close_reason, last_partial_time, last_event_time,
                    inbox, n_handled, current, trigger, call, outbox, last_reply, n_sent,
                    n_connects >>

\* The recognizer raises: the exception leaves get_partial or get_final
\* before any assignment, passes through run_in_executor and leaves the
\* handler, whose only except clause is for json.JSONDecodeError.
ExecutorRaise(c) ==
    /\ UNCHANGED << api_vars, client_vars, util_vars, agent_vars >>
    /\ pc[c] \in {"partial_run", "final_run"}
    /\ HandlerExit(c, "failed")
    /\ UNCHANGED << now, path, close_code, close_reason,
                    n_handled, current, trigger, call, outbox, last_reply,
                    n_sent, n_connects >>

\* await websocket.send(json.dumps(reply)), then last_partial_time = loop.time()
SendReply(c) ==
    /\ UNCHANGED << api_vars, client_vars, util_vars, agent_vars >>
    /\ pc[c] \in {"partial_send", "final_send"}
    /\ outbox' = [outbox EXCEPT ![c] = Append(@, Sent(pending[c].type, trigger[c], current[c].type))]
    /\ last_reply' = [last_reply EXCEPT ![c] = pending[c]]
    /\ pending' = [pending EXCEPT ![c] = NoReply]
    /\ last_partial_time' = [last_partial_time EXCEPT ![c] = now]
    /\ last_event_time' = [last_event_time EXCEPT ![c] = now]
    /\ pc' = [pc EXCEPT ![c] = "recv"]
    /\ UNCHANGED << now, conn, path, close_code, close_reason, session, inbox,
                    n_handled, current, trigger, call, n_sent, n_connects >>

\* websocket.send raises ConnectionClosed: the client has closed. No
\* except clause of the handler catches it.
SendFails(c) ==
    /\ UNCHANGED << api_vars, client_vars, util_vars, agent_vars >>
    /\ pc[c] \in {"partial_send", "final_send"}
    /\ \E i \in 1 .. Len(inbox[c]) : inbox[c][i] = CloseFrame
    /\ HandlerExit(c, "failed")
    /\ UNCHANGED << now, path, close_code, close_reason,
                    n_handled, current, trigger, call, outbox, last_reply, n_sent,
                    n_connects >>

\* Time passes.
Tick(d) ==
    /\ UNCHANGED << api_vars, client_vars, util_vars, agent_vars >>
    /\ now + d <= MaxClockMs
    /\ now' = now + d
    /\ UNCHANGED << conn, path, close_code, close_reason, session, last_partial_time, last_event_time,
                    pc, inbox, n_handled, current, trigger, call, pending, outbox, last_reply,
                    n_sent, n_connects >>

Next ==
    \/ \E c \in Conns, p \in Paths : Accept(c, p)
    \/ \E c \in Conns, m \in Messages : ClientSend(c, m)
    \/ \E c \in Conns : ClientClose(c)
    \/ \E c \in Conns : HandleMessage(c)
    \/ \E c \in Conns, r \in HostResults : ExecutorReturn(c, r)
    \/ \E c \in Conns : ExecutorRaise(c)
    \/ \E c \in Conns : SendReply(c)
    \/ \E c \in Conns : SendFails(c)
    \/ \E d \in TickSteps : Tick(d)

Spec == Init /\ [][Next]_vars

\* ------------------------------------------------- the session on its own

\* StreamingSession driven through its methods, as its unit tests do:
\* any sequence of add_audio, get_partial and get_final on one session.

\* The arrays given to add_audio.
SessionFrames == { <<>>, <<1>>, <<2, 3>> }

SessionInit ==
    /\ HostInit
    /\ NoUtil
    /\ NoAgent
    /\ api_session \in { StreamingSession(n) : n \in strategies }
    /\ api_op = "init"
    /\ api_call = NoCall
    /\ api_reply = NoReply
    /\ api_result = NoResult
    /\ api_ops = 0
    /\ NoClient

ApiAddAudio(audio) ==
    /\ api_ops < MaxOps
    /\ Len(api_session.audio_buffer) < MaxFrames
    /\ api_ops' = api_ops + 1
    /\ api_op' = "add_audio"
    /\ api_session' = add_audio(api_session, audio)
    /\ api_call' = NoCall
    /\ api_reply' = NoReply
    /\ api_result' = NoResult
    /\ UNCHANGED << host_vars, client_vars, util_vars, agent_vars >>

ApiGetPartial(backend_result) ==
    /\ api_ops < MaxOps
    /\ api_ops' = api_ops + 1
    /\ api_op' = "get_partial"
    /\ api_call' = IF api_session.audio_buffer = <<>> THEN NoCall
                   ELSE get_partial_call(api_session)
    /\ api_reply' = get_partial(api_session, backend_result)
    /\ api_result' = IF api_session.audio_buffer = <<>> THEN NoResult
                     ELSE backend_result
    /\ api_session' = get_partial_session(api_session, backend_result)
    /\ UNCHANGED << host_vars, client_vars, util_vars, agent_vars >>

ApiGetFinal(backend_result) ==
    /\ api_ops < MaxOps
    /\ api_ops' = api_ops + 1
    /\ api_op' = "get_final"
    /\ api_call' = IF api_session.audio_buffer = <<>> THEN NoCall
                   ELSE get_final_call(api_session)
    /\ api_reply' = get_final(api_session, backend_result)
    /\ api_result' = IF api_session.audio_buffer = <<>> THEN NoResult
                     ELSE backend_result
    /\ api_session' = get_final_session(api_session, backend_result)
    /\ UNCHANGED << host_vars, client_vars, util_vars, agent_vars >>

SessionNext ==
    \/ \E audio \in SessionFrames : ApiAddAudio(audio)
    \/ \E r \in BackendResults : ApiGetPartial(r)
    \/ \E r \in BackendResults : ApiGetFinal(r)

SpecSession == SessionInit /\ [][SessionNext]_vars

\* -------------------------------------------------------------- the clients

\* How a _send_and_receive can end on a websocket in state t: with a reply
\* that carries text, with a reply whose text is empty once stripped, with
\* a reply of type "noise", or with ConnectionClosed.
SendOutcomes(t) == IF t = "open" THEN {"text", "empty", "noise", "lost"} ELSE {"lost"}

\* A client that hands every reply it gets to the agent.
reply_received(outcome) == outcome \in {"text", "empty", "noise"}

\* The reply gives a transcript: "if result", its type is not "noise", and
\* result.get("text", "").strip() is not empty.
reply_has_text(outcome) == outcome = "text"

\* What send_transcription can be to a turn: not called without a
\* transcript or without an agent_client, called and awaited with both.
agent_calls(has_transcript, to_agent) ==
    IF has_transcript /\ to_agent THEN {"pending"} ELSE {"none"}

\* The attempt of one _send_and_receive.
Attempt(audio, energy_sum, outcome) ==
    [audio |-> audio, energy_sum |-> energy_sum, outcome |-> outcome]

\* Where the count of silent chunks in a row stops.
MaxSilenceRun == Max(batch_silence_chunks, silence_chunks)

\* self._connect(): the flag and the websocket after it.
connect_transport == IF server_up THEN "open" ELSE "none"

ClientInit ==
    /\ HostInit
    /\ NoUtil
    /\ NoAgent
    /\ api_session = NoSession
    /\ api_op = "none"
    /\ api_call = NoCall
    /\ api_reply = NoReply
    /\ api_result = NoResult
    /\ api_ops = 0
    /\ mode \in {"batch", "streaming"}
    /\ server_up \in BOOLEAN
    /\ ClientConstructed

\* run(): "if not await self._connect()" before the loop starts.
ClientStart ==
    /\ mode # "none"
    /\ ~started
    /\ started' = TRUE
    /\ transport' = connect_transport
    /\ connected' = server_up
    /\ UNCHANGED << mode, server_up, gate, utterance_transcripts, cooldown_left,
                    elapsed_ms, n_chunks, tick, frame_op, chunk, attempt, finalized, summary,
                    speech_run, silence_run, sent_upto, held, agent_call, final_branch >>
    /\ UNCHANGED << host_vars, api_vars, util_vars, agent_vars >>

\* One turn of _reconnect_loop that finds _connected false.
Reconnect ==
    /\ started
    /\ ~connected
    /\ transport' = connect_transport
    /\ connected' = server_up
    /\ UNCHANGED << mode, started, server_up, gate, utterance_transcripts,
                    cooldown_left, elapsed_ms, n_chunks, tick, frame_op, chunk, attempt,
                    finalized, summary, speech_run, silence_run, sent_upto, held,
                    agent_call, final_branch >>
    /\ UNCHANGED << host_vars, api_vars, util_vars, agent_vars >>

\* The server starts to accept connections.
ServerStart ==
    /\ mode # "none"
    /\ ~server_up
    /\ server_up' = TRUE
    /\ UNCHANGED << mode, started, transport, connected, gate, utterance_transcripts,
                    cooldown_left, elapsed_ms, n_chunks, tick, frame_op, chunk, attempt,
                    finalized, summary, speech_run, silence_run, sent_upto, held,
                    agent_call, final_branch >>
    /\ UNCHANGED << host_vars, api_vars, util_vars, agent_vars >>

\* The server closes the client's connection.
ServerClose ==
    /\ transport = "open"
    /\ transport' = "closed"
    /\ UNCHANGED << mode, started, server_up, connected, gate, utterance_transcripts,
                    cooldown_left, elapsed_ms, n_chunks, tick, frame_op, chunk, attempt,
                    finalized, summary, speech_run, silence_run, sent_upto, held,
                    agent_call, final_branch >>
    /\ UNCHANGED << host_vars, api_vars, util_vars, agent_vars >>

\* The chunk is dequeued before _agent_cooldown_until: the gate is reset and
\* the chunk is dropped. Common to both clients.
CooldownChunk(c, elapsed) ==
    /\ gate' = reset(gate)
    /\ utterance_transcripts' = 0
    /\ cooldown_left' = cooldown_after_chunk(cooldown_left, elapsed)
    /\ frame_op' = "cooldown"
    /\ chunk' = c
    /\ attempt' = NoAttempt
    /\ finalized' = FALSE
    /\ summary' = FALSE
    /\ speech_run' = 0
    /\ silence_run' = 0
    /\ agent_call' = "none"
    /\ final_branch' = NoFinalBranch
    /\ UNCHANGED << transport, connected, n_chunks, sent_upto >>

\* What a _send_and_receive of audio that ends with outcome leaves.
SendAndReceive(audio, energy_sum, outcome) ==
    /\ outcome \in SendOutcomes(transport)
    /\ attempt' = Attempt(audio, energy_sum, outcome)
    /\ connected' = (outcome # "lost")
    /\ transport' = IF outcome = "lost" THEN "closed" ELSE transport
    /\ sent_upto' = Max(sent_upto, audio[Len(audio)])

\* No _send_and_receive is made for this chunk.
NoSend(outcome) ==
    /\ outcome = "none"
    /\ attempt' = NoAttempt
    /\ UNCHANGED << transport, connected, sent_upto >>

\* One turn of the loop of BatchClient.run for the chunk c, dequeued
\* elapsed milliseconds after the last one, up to its next get_chunk or to
\* its "await self.agent_client.send_transcription(...)". outcome is how
\* the _send_and_receive of this turn ends ("none" when none is made);
\* to_agent says that there is an agent_client. The gate is reset once
\* send_transcription has returned.
BatchTurn(c, elapsed, outcome, to_agent) ==
    /\ mode = "batch"
    /\ started
    /\ tick' = 1 - tick
    /\ elapsed_ms' = elapsed
    /\ UNCHANGED << mode, started, server_up >>
    /\ UNCHANGED << host_vars, api_vars, util_vars, agent_vars >>
    /\ IF cooldown_after_chunk(cooldown_left, elapsed) > 0
       THEN /\ outcome = "none" /\ ~to_agent
            /\ CooldownChunk(c, elapsed)
       ELSE LET speech_detected == detect_speech(c)
                s1 == batch_onset(gate, speech_detected)
                s2 == batch_collect(s1, n_chunks + 1, c.energy)
                s3 == should_finalize_state(s2, speech_detected)
                final == should_finalize(s2, speech_detected)
                send == final /\ ~too_short_or_quiet(s3) /\ connected
            IN  /\ s1.is_speaking => n_chunks < MaxChunks
                /\ n_chunks' = IF s1.is_speaking THEN n_chunks + 1 ELSE n_chunks
                /\ frame_op' = "frame"
                /\ chunk' = c
                /\ speech_run' = IF speech_detected
                                 THEN Min(speech_run + 1, onset_threshold) ELSE 0
                /\ silence_run' = IF speech_detected THEN 0
                                  ELSE Min(silence_run + 1, MaxSilenceRun)
                /\ finalized' = final
                /\ summary' = FALSE
                /\ utterance_transcripts' = 0
                /\ IF send THEN SendAndReceive(s3.audio_chunks, s3.energy_sum, outcome)
                   ELSE NoSend(outcome)
                /\ to_agent => (send /\ reply_has_text(outcome))
                /\ agent_call' \in agent_calls(send /\ reply_has_text(outcome), to_agent)
                /\ gate' = IF final /\ agent_call' # "pending" THEN reset(s3) ELSE s3
                /\ final_branch' = NoFinalBranch
                /\ cooldown_left' = 0

\* A turn of the loop of BatchClient.run whose _send_and_receive, if it
\* makes one, ends at once.
BatchChunk(c, elapsed, outcome, to_agent) ==
    /\ held = NoChunk
    /\ agent_call # "pending"
    /\ elapsed \in Elapsed(cooldown_left)
    /\ held' = NoChunk
    /\ BatchTurn(c, elapsed, outcome, to_agent)

\* One turn of the loop of StreamingClient.run for the chunk c: the onset
\* debounce, then the three checks in the order of the code: the pause that
\* sends the chunks so far, the long silence that ends the utterance, the
\* cap on the buffered duration. The turn runs up to its next get_chunk or
\* to its "await self.agent_client.send_transcription(...)", which comes
\* before the locals are reset.
StreamingTurn(c, elapsed, outcome, to_agent) ==
    /\ mode = "streaming"
    /\ started
    /\ tick' = 1 - tick
    /\ elapsed_ms' = elapsed
    /\ UNCHANGED << mode, started, server_up >>
    /\ UNCHANGED << host_vars, api_vars, util_vars, agent_vars >>
    /\ IF cooldown_after_chunk(cooldown_left, elapsed) > 0
       THEN /\ outcome = "none" /\ ~to_agent
            /\ CooldownChunk(c, elapsed)
       ELSE LET speech_detected == detect_speech(c)
                s1 == stream_onset(gate, speech_detected)
                s2 == stream_collect(s1, n_chunks + 1)
                t1 == IF ~gate.is_speaking /\ s1.is_speaking
                      THEN 0 ELSE utterance_transcripts
                got == IF reply_has_text(outcome) THEN 1 ELSE 0
                \* pause: send the chunks so far
                pause == stream_pause(s2)
                send_p == stream_pause_sends(s2, connected)
                chunks_p == IF pause THEN <<>> ELSE s2.audio_chunks
                conn_p == IF send_p THEN outcome # "lost" ELSE connected
                t_p == IF send_p THEN t1 + got ELSE t1
                \* long silence: end of the utterance
                final == stream_final(s2)
                send_f == stream_final_sends(s2, chunks_p, conn_p)
                t_f == IF send_f THEN t_p + got ELSE t_p
                s_f == IF final THEN reset(s2)
                       ELSE [s2 EXCEPT !.audio_chunks = chunks_p]
                \* cap on the buffered duration
                capped == /\ s_f.is_speaking
                          /\ duration_ms(s_f.audio_chunks) >= max_speech_ms
                send_m == capped /\ s_f.audio_chunks # <<>> /\ conn_p
                t_m == IF final THEN 0
                       ELSE IF send_m THEN t_f + got ELSE t_f
            IN  /\ s1.is_speaking => n_chunks < MaxChunks
                /\ n_chunks' = IF s1.is_speaking THEN n_chunks + 1 ELSE n_chunks
                /\ frame_op' = "frame"
                /\ chunk' = c
                /\ speech_run' = IF speech_detected
                                 THEN Min(speech_run + 1, onset_threshold) ELSE 0
                /\ silence_run' = IF speech_detected THEN 0
                                  ELSE Min(silence_run + 1, MaxSilenceRun)
                /\ finalized' = final
                /\ summary' = (final /\ t_f > 0)
                /\ to_agent => (final /\ t_f > 0)
                /\ agent_call' \in agent_calls(final /\ t_f > 0, to_agent)
                /\ utterance_transcripts' = IF agent_call' = "pending" THEN t_f ELSE t_m
                /\ gate' = IF agent_call' = "pending"
                           THEN [s2 EXCEPT !.audio_chunks = chunks_p]
                           ELSE IF capped THEN [s_f EXCEPT !.audio_chunks = <<>>]
                           ELSE s_f
                /\ IF send_p THEN SendAndReceive(s2.audio_chunks, 0, outcome)
                   ELSE IF send_f THEN SendAndReceive(chunks_p, 0, outcome)
                   ELSE IF send_m THEN SendAndReceive(s_f.audio_chunks, 0, outcome)
                   ELSE NoSend(outcome)
                /\ final_branch' = IF final THEN FinalBranch(chunks_p, send_f)
                                   ELSE NoFinalBranch
                /\ cooldown_left' = 0

\* A turn of the loop of StreamingClient.run whose _send_and_receive, if
\* it makes one, ends at once.
StreamingChunk(c, elapsed, outcome, to_agent) ==
    /\ held = NoChunk
    /\ agent_call # "pending"
    /\ elapsed \in Elapsed(cooldown_left)
    /\ held' = NoChunk
    /\ StreamingTurn(c, elapsed, outcome, to_agent)

\* The turn of BatchClient.run for the chunk c, dequeued elapsed
\* milliseconds after the last one, calls _send_and_receive.
batch_sends(c, elapsed) ==
    LET speech_detected == detect_speech(c)
        s1 == batch_onset(gate, speech_detected)
        s2 == batch_collect(s1, n_chunks + 1, c.energy)
        s3 == should_finalize_state(s2, speech_detected)
    IN  /\ mode = "batch"
        /\ cooldown_after_chunk(cooldown_left, elapsed) = 0
        /\ s1.is_speaking => n_chunks < MaxChunks
        /\ should_finalize(s2, speech_detected)
        /\ ~too_short_or_quiet(s3)
        /\ connected

\* The turn of StreamingClient.run for the chunk c calls _send_and_receive:
\* at the pause, at the long silence or at the cap.
streaming_sends(c, elapsed) ==
    LET speech_detected == detect_speech(c)
        s1 == stream_onset(gate, speech_detected)
        s2 == stream_collect(s1, n_chunks + 1)
        pause == stream_pause(s2)
        chunks_p == IF pause THEN <<>> ELSE s2.audio_chunks
        final == stream_final(s2)
        s_f == IF final THEN reset(s2) ELSE [s2 EXCEPT !.audio_chunks = chunks_p]
    IN  /\ mode = "streaming"
        /\ cooldown_after_chunk(cooldown_left, elapsed) = 0
        /\ s1.is_speaking => n_chunks < MaxChunks
        /\ connected
        /\ \/ stream_pause_sends(s2, connected)
           \/ stream_final_sends(s2, chunks_p, connected)
           \/ /\ s_f.is_speaking
              /\ duration_ms(s_f.audio_chunks) >= max_speech_ms
              /\ s_f.audio_chunks # <<>>

\* The turn for the chunk c has sent its message and waits in
\* "response = await self._ws.recv()", which has no timeout: the server
\* holds the open connection and has not replied.
RecvBlocks(c, elapsed) ==
    /\ started
    /\ held = NoChunk
    /\ agent_call # "pending"
    /\ transport = "open"
    /\ elapsed \in Elapsed(cooldown_left)
    /\ batch_sends(c, elapsed) \/ streaming_sends(c, elapsed)
    /\ held' = c
    /\ cooldown_left' = 0
    /\ elapsed_ms' = elapsed
    /\ UNCHANGED << mode, started, server_up, transport, connected, gate,
                    utterance_transcripts, n_chunks, tick, frame_op,
                    chunk, attempt, finalized, summary, speech_run, silence_run,
                    sent_upto, agent_call, final_branch >>
    /\ UNCHANGED << host_vars, api_vars, util_vars, agent_vars >>

\* recv() returns at last, with a reply or with ConnectionClosed, and the
\* turn of the held chunk goes on.
RecvEnds(outcome, to_agent) ==
    /\ held # NoChunk
    /\ held' = NoChunk
    /\ \/ BatchTurn(held, elapsed_ms, outcome, to_agent)
       \/ StreamingTurn(held, elapsed_ms, outcome, to_agent)

\* "await self.agent_client.send_transcription(...)" returns, wait
\* milliseconds after the chunk of the turn was dequeued: with a response
\* (agent_ok) _agent_cooldown_until is set to agent_cooldown_ms from now,
\* and with or without one the turn ends with the reset of the gate.
AgentReturns(agent_ok, wait) ==
    /\ agent_call = "pending"
    /\ agent_call' = IF agent_ok THEN "reply" ELSE "null"
    /\ cooldown_left' = IF agent_ok THEN wait + agent_cooldown_ms ELSE 0
    /\ gate' = reset(gate)
    /\ utterance_transcripts' = 0
    /\ UNCHANGED << mode, started, server_up, transport, connected, elapsed_ms,
                    n_chunks, tick, frame_op, chunk, attempt, finalized, summary,
                    speech_run, silence_run, sent_upto, held, final_branch >>
    /\ UNCHANGED << host_vars, api_vars, util_vars, agent_vars >>

ClientNext ==
    \/ ClientStart
    \/ Reconnect
    \/ ServerStart
    \/ ServerClose
    \/ \E c \in Chunks, elapsed \in ElapsedTimes,
          outcome \in {"none", "text", "empty", "noise", "lost"}, to_agent \in BOOLEAN :
          BatchChunk(c, elapsed, outcome, to_agent)
    \/ \E c \in Chunks, elapsed \in ElapsedTimes,
          outcome \in {"none", "text", "empty", "noise", "lost"}, to_agent \in BOOLEAN :
          StreamingChunk(c, elapsed, outcome, to_agent)
    \/ \E c \in Chunks, elapsed \in ElapsedTimes : RecvBlocks(c, elapsed)
    \/ \E outcome \in {"text", "empty", "noise", "lost"}, to_agent \in BOOLEAN :
          RecvEnds(outcome, to_agent)
    \/ \E agent_ok \in BOOLEAN, wait \in Waits : AgentReturns(agent_ok, wait)

SpecClient == ClientInit /\ [][ClientNext]_vars

\* ------------------------------------------------------ the text utilities

\* Words are sequences of characters.
DedupWords == { <<"a">>, <<"b">> }

\* Phrases longer than three words.
LongPhrases ==
    { << <<"a">>, <<"b">>, <<"c">>, <<"d">> >>,
      << <<"a">>, <<"b">>, <<"c">>, <<"d">>, <<"e">> >> }

RECURSIVE Repeat(_, _)
Repeat(phrase, n) == IF n = 0 THEN <<>> ELSE phrase \o Repeat(phrase, n - 1)

\* A phrase of four words that says one of its words three times.
InnerRunPhrase == << <<"a">>, <<"b">>, <<"b">>, <<"b">> >>

\* The texts given to dedup_repeated_phrases: every sentence of at most
\* MaxWords words over DedupWords, the long phrases and the phrase with an
\* inner run said up to MaxRepeatsArg + 1 times, and texts with irregular
\* blanks, with tabs, a line end and an ideographic space.
DedupTexts ==
    { join(w) : w \in UNION { [1 .. k -> DedupWords] : k \in 0 .. MaxWords } }
    \cup { join(Repeat(p, n)) : p \in LongPhrases, n \in 1 .. MaxRepeatsArg + 1 }
    \cup { join(Repeat(InnerRunPhrase, n)) : n \in 1 .. MaxRepeatsArg + 1 }
    \cup { <<" ", "a">>, <<"a", " ", " ", "a", " ", "a", " ", "a", " ">>,
           <<"a", "\t", "a", "\t", "a", "\t", "a", "\t", "a">>,
           <<"a", "\n", "a", " ", "a", " ", "a", " ", "a">>,
           <<"a", "U+3000", "a", " ", "a", " ", "a", " ", "a">>,
           <<"a", "\t", "b">> }

UtilsInit ==
    /\ HostInit
    /\ api_session = NoSession
    /\ api_op = "none"
    /\ api_call = NoCall
    /\ api_reply = NoReply
    /\ api_result = NoResult
    /\ api_ops = 0
    /\ NoClient
    /\ NoAgent
    /\ util_text \in DedupTexts
    /\ util_max_repeats \in 1 .. MaxRepeatsArg
    /\ util_result = NoText

\* The call dedup_repeated_phrases(text, max_repeats) returns.
CallDedup ==
    /\ util_result = NoText
    /\ util_result' = dedup_repeated_phrases(util_text, util_max_repeats)
    /\ UNCHANGED << util_text, util_max_repeats >>
    /\ UNCHANGED << host_vars, api_vars, client_vars, agent_vars >>

UtilsNext == CallDedup

SpecUtils == UtilsInit /\ [][UtilsNext]_vars

\* ------------------------------------------- the agent and the playback

\* Calls of send_transcription over one behaviour.
MaxRequests == 3

\* Blocks that wait in AudioCapture.audio_queue.
MaxQueued == 7

\* "cooldown_s = 0.5" after speak() returns, in milliseconds and in the
\* scale of agent_cooldown_ms: two frame periods.
tts_cooldown_ms == 60

\* The clock of the reply path moves in steps of a frame period divided
\* by PhasesPerFrame.
PhasesPerFrame == 3
Delays == { k * (chunk_ms \div PhasesPerFrame) : k \in 1 .. PhasesPerFrame - 1 }

\* The time one turn of the loop may take to dequeue a waiting block and to
\* resume run() with it and still count as prompt: one step of the clock.
handoff_ms == chunk_ms \div PhasesPerFrame

\* loop_lag stops here: a turn of the loop took longer than handoff_ms.
LagCap == 2 * handoff_ms

\* run() has a block to go on with: one waits on the queue for the
\* get_chunk of the executor, or one was dequeued and run() has not resumed.
LoopReady == reply_pc = "got" \/ (reply_pc = "loop" /\ capture_queue # <<>>)

\* loop_lag after d milliseconds: the time counts while run() has a block
\* to go on with.
lag_after(d) == IF LoopReady THEN Min(loop_lag + d, LagCap) ELSE loop_lag

\* What send_transcription returned for a request: the number of the request
\* its reply answers, 0 for None.
Response(request, reply_to) == [request |-> request, reply_to |-> reply_to]

\* main() constructs the AgentClient and awaits its connect() before run()
\* starts: agent_up says whether the agent accepted.
AgentInit ==
    /\ HostInit
    /\ NoUtil
    /\ api_session = NoSession
    /\ api_op = "none"
    /\ api_call = NoCall
    /\ api_reply = NoReply
    /\ api_result = NoResult
    /\ api_ops = 0
    /\ NoClient
    /\ tts \in BOOLEAN
    /\ \E agent_up \in BOOLEAN :
          /\ agent_ws = IF agent_up THEN "open" ELSE "none"
          /\ agent_connected = agent_up
    /\ agent_sent = <<>>
    /\ agent_replies = <<>>
    /\ agent_request = 0
    /\ agent_response = NoResponse
    /\ n_requests = 0
    /\ reply_pc = "loop"
    /\ capture_queue = <<>>
    /\ mic_cooldown_left = 0
    /\ dequeued = NoFrame
    /\ to_callback = chunk_ms
    /\ loop_lag = 0
    /\ orphan_get = FALSE

\* Time passes between two capture callbacks: d milliseconds, less than
\* what is left to the next one.
TimePasses(d) ==
    /\ reply_pc # "done"
    /\ d < to_callback
    /\ to_callback' = to_callback - d
    /\ mic_cooldown_left' = Max(mic_cooldown_left - d, 0)
    /\ loop_lag' = lag_after(d)
    /\ UNCHANGED << agent_ws, agent_connected, agent_sent, agent_replies, agent_request,
                    agent_response, n_requests, reply_pc, tts, capture_queue, dequeued,
                    orphan_get >>
    /\ UNCHANGED << host_vars, api_vars, client_vars, util_vars >>

\* AudioCapture._callback: the frame period is over and the block it
\* captured is put on the queue, whatever the loop is doing. The stream
\* is stopped when run() leaves "with self.audio_capture".
Callback ==
    /\ reply_pc # "done"
    /\ Len(capture_queue) < MaxQueued
    /\ capture_queue' = Append(capture_queue, reply_pc = "tts")
    /\ mic_cooldown_left' = Max(mic_cooldown_left - to_callback, 0)
    /\ loop_lag' = lag_after(to_callback)
    /\ to_callback' = chunk_ms
    /\ UNCHANGED << agent_ws, agent_connected, agent_sent, agent_replies, agent_request,
                    agent_response, n_requests, reply_pc, tts, dequeued, orphan_get >>
    /\ UNCHANGED << host_vars, api_vars, client_vars, util_vars >>

\* The cooldown that follows a reply of the agent: the fixed one after the
\* playback, agent_cooldown_ms without a tts_client.
cooldown_after_reply(with_tts) == IF with_tts THEN tts_cooldown_ms ELSE agent_cooldown_ms

\* "loop.run_in_executor(None, self.audio_capture.get_chunk, 0.1)": the
\* thread of the executor takes the oldest block off the queue. run() has
\* not resumed: callbacks and the clock go on before it does. With an empty
\* queue get_chunk gives None after 0.1 s and the loop calls it again, which
\* changes nothing.
GetChunk ==
    /\ reply_pc = "loop"
    /\ capture_queue # <<>>
    /\ capture_queue' = Tail(capture_queue)
    /\ dequeued' = [playback |-> Head(capture_queue), op |-> "pending"]
    /\ reply_pc' = "got"
    /\ UNCHANGED << agent_ws, agent_connected, agent_sent, agent_replies, agent_request,
                    agent_response, n_requests, tts, mic_cooldown_left, to_callback,
                    loop_lag, orphan_get >>
    /\ UNCHANGED << host_vars, api_vars, client_vars, util_vars >>

\* run() resumes with the block and runs up to its next await: before
\* _agent_cooldown_until, read from the clock now, the block is dropped;
\* after it the block goes to the speech gate, and sends says that it ends
\* an utterance that is given to _send_and_receive. A turn that took more
\* than handoff_ms leaves loop_lag at LagCap.
Resume(sends) ==
    /\ reply_pc = "got"
    /\ IF mic_cooldown_left > 0
       THEN /\ ~sends
            /\ dequeued' = [dequeued EXCEPT !.op = "cooldown"]
            /\ reply_pc' = "loop"
       ELSE /\ dequeued' = [dequeued EXCEPT !.op = "frame"]
            /\ reply_pc' = IF sends THEN "stt" ELSE "loop"
    /\ loop_lag' = IF loop_lag > handoff_ms THEN LagCap ELSE 0
    /\ UNCHANGED << agent_ws, agent_connected, agent_sent, agent_replies, agent_request,
                    agent_response, n_requests, tts, capture_queue, mic_cooldown_left,
                    to_callback, orphan_get >>
    /\ UNCHANGED << host_vars, api_vars, client_vars, util_vars >>

\* The message is written by "await self._ws.send(message)": send_waits says
\* that the send waits for the connection to take it, otherwise it returns
\* at once and the call stands in the recv.
after_send(send_waits) == IF send_waits THEN "sending" ELSE "agent"

\* AgentClient.send_transcription from its call to its first await: the
\* connect of ensure_connected without a connection, the send or the recv
\* after it with one; a send on a connection the agent closed raises
\* ConnectionClosed and the call returns None.
send_transcription(send_waits) ==
    /\ n_requests' = n_requests + 1
    /\ agent_request' = n_requests + 1
    /\ IF ~(agent_connected /\ agent_ws # "none")
       THEN /\ reply_pc' = "connect"
            /\ agent_response' = NoResponse
            /\ UNCHANGED << agent_ws, agent_connected, agent_sent, agent_replies >>
       ELSE IF agent_ws = "closed"
       THEN /\ agent_connected' = FALSE
            /\ agent_response' = Response(n_requests + 1, 0)
            /\ reply_pc' = "returned"
            /\ UNCHANGED << agent_ws, agent_sent, agent_replies >>
       ELSE /\ agent_sent' = Append(agent_sent, n_requests + 1)
            /\ agent_response' = NoResponse
            /\ reply_pc' = after_send(send_waits)
            /\ UNCHANGED << agent_ws, agent_connected, agent_replies >>

\* "await self._send_and_receive(audio)" returns; has_text says that the
\* reply gives a transcript, and then send_transcription is called.
SttReturns(has_text, send_waits) ==
    /\ reply_pc = "stt"
    /\ has_text => n_requests < MaxRequests
    /\ IF has_text
       THEN send_transcription(send_waits)
       ELSE /\ ~send_waits
            /\ reply_pc' = "loop"
            /\ UNCHANGED << agent_ws, agent_connected, agent_sent, agent_replies,
                            agent_request, agent_response, n_requests >>
    /\ UNCHANGED << tts, capture_queue, mic_cooldown_left, dequeued, to_callback,
                    loop_lag, orphan_get >>
    /\ UNCHANGED << host_vars, api_vars, client_vars, util_vars >>

\* The connect() of ensure_connected returns: on a new connection the
\* message is sent, without one send_transcription returns None.
ConnectReturns(connects, send_waits) ==
    /\ reply_pc = "connect"
    /\ IF connects
       THEN /\ agent_ws' = "open"
            /\ agent_connected' = TRUE
            /\ agent_sent' = <<agent_request>>
            /\ agent_replies' = <<>>
            /\ reply_pc' = after_send(send_waits)
            /\ UNCHANGED agent_response
       ELSE /\ ~send_waits
            /\ agent_ws' = "none"
            /\ agent_connected' = FALSE
            /\ agent_response' = Response(agent_request, 0)
            /\ reply_pc' = "returned"
            /\ UNCHANGED << agent_sent, agent_replies >>
    /\ UNCHANGED << agent_request, n_requests, tts, capture_queue, mic_cooldown_left,
                    dequeued, to_callback, loop_lag, orphan_get >>
    /\ UNCHANGED << host_vars, api_vars, client_vars, util_vars >>

\* "await self._ws.send(message)" returns and the call stands in the recv.
SendReturns ==
    /\ reply_pc = "sending"
    /\ agent_ws = "open"
    /\ reply_pc' = "agent"
    /\ UNCHANGED << agent_ws, agent_connected, agent_sent, agent_replies, agent_request,
                    agent_response, n_requests, tts, capture_queue, mic_cooldown_left,
                    dequeued, to_callback, loop_lag, orphan_get >>
    /\ UNCHANGED << host_vars, api_vars, client_vars, util_vars >>

\* The agent closed the connection while the send waited: send raises
\* ConnectionClosed and send_transcription returns None.
SendClosed ==
    /\ reply_pc = "sending"
    /\ agent_ws = "closed"
    /\ agent_connected' = FALSE
    /\ agent_response' = Response(agent_request, 0)
    /\ reply_pc' = "returned"
    /\ UNCHANGED << agent_ws, agent_sent, agent_replies, agent_request, n_requests,
                    tts, capture_queue, mic_cooldown_left, dequeued, to_callback,
                    loop_lag, orphan_get >>
    /\ UNCHANGED << host_vars, api_vars, client_vars, util_vars >>

\* The agent answers the oldest request it has.
AgentAnswers ==
    /\ agent_ws = "open"
    /\ agent_sent # <<>>
    /\ agent_replies' = Append(agent_replies, Head(agent_sent))
    /\ agent_sent' = Tail(agent_sent)
    /\ UNCHANGED << agent_ws, agent_connected, agent_request, agent_response, n_requests,
                    reply_pc, tts, capture_queue, mic_cooldown_left, dequeued, to_callback,
                    loop_lag, orphan_get >>
    /\ UNCHANGED << host_vars, api_vars, client_vars, util_vars >>

\* The agent closes the connection; what it has sent can still be received.
AgentCloses ==
    /\ agent_ws = "open"
    /\ agent_ws' = "closed"
    /\ agent_sent' = <<>>
    /\ UNCHANGED << agent_connected, agent_replies, agent_request, agent_response,
                    n_requests, reply_pc, tts, capture_queue, mic_cooldown_left, dequeued,
                    to_callback, loop_lag, orphan_get >>
    /\ UNCHANGED << host_vars, api_vars, client_vars, util_vars >>

\* Which of the waiting replies recv() returns: the oldest.
next_reply(replies) == Head(replies)

\* "await asyncio.wait_for(self._ws.recv(), timeout=60)" returns a message
\* and send_transcription returns it.
RecvReturns ==
    /\ reply_pc = "agent"
    /\ agent_replies # <<>>
    /\ agent_response' = Response(agent_request, next_reply(agent_replies))
    /\ agent_replies' = Tail(agent_replies)
    /\ reply_pc' = "returned"
    /\ UNCHANGED << agent_ws, agent_connected, agent_sent, agent_request, n_requests,
                    tts, capture_queue, mic_cooldown_left, dequeued, to_callback,
                    loop_lag, orphan_get >>
    /\ UNCHANGED << host_vars, api_vars, client_vars, util_vars >>

\* No message came for 60 s: send_transcription returns None, and the
\* connection stays as it is.
RecvTimesOut ==
    /\ reply_pc = "agent"
    /\ agent_ws = "open"
    /\ agent_replies = <<>>
    /\ agent_response' = Response(agent_request, 0)
    /\ reply_pc' = "returned"
    /\ UNCHANGED << agent_ws, agent_connected, agent_sent, agent_replies, agent_request,
                    n_requests, tts, capture_queue, mic_cooldown_left, dequeued,
                    to_callback, loop_lag, orphan_get >>
    /\ UNCHANGED << host_vars, api_vars, client_vars, util_vars >>

\* recv() raises ConnectionClosed: send_transcription returns None.
RecvClosed ==
    /\ reply_pc = "agent"
    /\ agent_ws = "closed"
    /\ agent_replies = <<>>
    /\ agent_connected' = FALSE
    /\ agent_response' = Response(agent_request, 0)
    /\ reply_pc' = "returned"
    /\ UNCHANGED << agent_ws, agent_sent, agent_replies, agent_request, n_requests,
                    tts, capture_queue, mic_cooldown_left, dequeued, to_callback,
                    loop_lag, orphan_get >>
    /\ UNCHANGED << host_vars, api_vars, client_vars, util_vars >>

\* run() goes on with what send_transcription returned, up to its next
\* await: with a reply it starts the playback or, without a tts_client,
\* sets the cooldown; with None it takes the next block.
ReplyHandled ==
    /\ reply_pc = "returned"
    /\ reply_pc' = IF agent_response.reply_to # 0 /\ tts THEN "tts" ELSE "loop"
    /\ mic_cooldown_left' =
         IF agent_response.reply_to # 0 /\ ~tts
         THEN cooldown_after_reply(FALSE)
         ELSE mic_cooldown_left
    /\ UNCHANGED << agent_ws, agent_connected, agent_sent, agent_replies, agent_request,
                    agent_response, n_requests, tts, capture_queue, dequeued, to_callback,
                    loop_lag, orphan_get >>
    /\ UNCHANGED << host_vars, api_vars, client_vars, util_vars >>

\* "await self.tts_client.speak(...)" returns and the cooldown is set.
SpeakReturns ==
    /\ reply_pc = "tts"
    /\ reply_pc' = "loop"
    /\ mic_cooldown_left' = cooldown_after_reply(TRUE)
    /\ UNCHANGED << agent_ws, agent_connected, agent_sent, agent_replies, agent_request,
                    agent_response, n_requests, tts, capture_queue, dequeued, to_callback,
                    loop_lag, orphan_get >>
    /\ UNCHANGED << host_vars, api_vars, client_vars, util_vars >>

\* The awaits of the loop of run().
RunAwaits == { "loop", "got", "stt", "connect", "sending", "agent", "tts" }

\* run() is cancelled at an await of its loop: the finally block cancels
\* the reconnect task and awaits it. orphan says that a get_chunk handed to
\* the executor goes on in its thread; one that the executor had not
\* started is cancelled with run().
RunCancelled(orphan) ==
    /\ reply_pc \in RunAwaits
    /\ orphan => reply_pc = "loop"
    /\ reply_pc' = "fin_reconnect"
    /\ orphan_get' = orphan
    /\ UNCHANGED << agent_ws, agent_connected, agent_sent, agent_replies, agent_request,
                    agent_response, n_requests, tts, capture_queue, mic_cooldown_left,
                    dequeued, to_callback, loop_lag >>
    /\ UNCHANGED << host_vars, api_vars, client_vars, util_vars >>

\* The get_chunk left behind by the cancelled run() ends: it takes the
\* oldest block, which nobody reads, or finds none.
OrphanGetReturns ==
    /\ orphan_get
    /\ orphan_get' = FALSE
    /\ IF capture_queue # <<>>
       THEN /\ capture_queue' = Tail(capture_queue)
            /\ dequeued' = [playback |-> Head(capture_queue), op |-> "pending"]
       ELSE UNCHANGED << capture_queue, dequeued >>
    /\ UNCHANGED << agent_ws, agent_connected, agent_sent, agent_replies, agent_request,
                    agent_response, n_requests, reply_pc, tts, mic_cooldown_left,
                    to_callback, loop_lag >>
    /\ UNCHANGED << host_vars, api_vars, client_vars, util_vars >>

\* AgentClient.close() from its call to its await: with a websocket it
\* awaits the close of it, without one it clears _connected and returns.
close_called ==
    IF agent_ws # "none"
    THEN /\ reply_pc' = "closing"
         /\ UNCHANGED << agent_ws, agent_connected >>
    ELSE /\ reply_pc' = "done"
         /\ agent_connected' = FALSE
         /\ UNCHANGED agent_ws

\* "await reconnect_task" is over, also when run() is cancelled again in it
\* (CancelledError is passed over). stt_ws says that the client holds a
\* websocket to the recognizer, whose close is awaited next; without one
\* agent_client.close() is called.
ReconnectTaskDone(stt_ws) ==
    /\ reply_pc = "fin_reconnect"
    /\ IF stt_ws
       THEN /\ reply_pc' = "fin_ws"
            /\ UNCHANGED << agent_ws, agent_connected >>
       ELSE close_called
    /\ UNCHANGED << agent_sent, agent_replies, agent_request, agent_response, n_requests,
                    tts, capture_queue, mic_cooldown_left, dequeued, to_callback,
                    loop_lag, orphan_get >>
    /\ UNCHANGED << host_vars, api_vars, client_vars, util_vars >>

\* "await self._ws.close()" of the finally block returns and
\* agent_client.close() is called.
WsCloseReturns ==
    /\ reply_pc = "fin_ws"
    /\ close_called
    /\ UNCHANGED << agent_sent, agent_replies, agent_request, agent_response, n_requests,
                    tts, capture_queue, mic_cooldown_left, dequeued, to_callback,
                    loop_lag, orphan_get >>
    /\ UNCHANGED << host_vars, api_vars, client_vars, util_vars >>

\* The "await self._ws.close()" of AgentClient.close() returns: _ws = None,
\* _connected = False. In run() the finally block is over and the capture
\* stream is stopped.
CloseReturns ==
    /\ reply_pc = "closing"
    /\ agent_ws' = "none"
    /\ agent_connected' = FALSE
    /\ reply_pc' = "done"
    /\ UNCHANGED << agent_sent, agent_replies, agent_request, agent_response, n_requests,
                    tts, capture_queue, mic_cooldown_left, dequeued, to_callback,
                    loop_lag, orphan_get >>
    /\ UNCHANGED << host_vars, api_vars, client_vars, util_vars >>

\* A cancel while the finally block awaits a close: the rest of the block
\* is not run, so the AgentClient keeps its websocket and _connected.
FinallyCancelled ==
    /\ reply_pc \in { "fin_ws", "closing" }
    /\ reply_pc' = "done"
    /\ UNCHANGED << agent_ws, agent_connected, agent_sent, agent_replies, agent_request,
                    agent_response, n_requests, tts, capture_queue, mic_cooldown_left,
                    dequeued, to_callback, loop_lag, orphan_get >>
    /\ UNCHANGED << host_vars, api_vars, client_vars, util_vars >>

AgentNext ==
    \/ \E d \in Delays : TimePasses(d)
    \/ Callback
    \/ GetChunk
    \/ \E sends \in BOOLEAN : Resume(sends)
    \/ \E has_text, send_waits \in BOOLEAN : SttReturns(has_text, send_waits)
    \/ \E connects, send_waits \in BOOLEAN : ConnectReturns(connects, send_waits)
    \/ SendReturns
    \/ SendClosed
    \/ AgentAnswers
    \/ AgentCloses
    \/ RecvReturns
    \/ RecvTimesOut
    \/ RecvClosed
    \/ ReplyHandled
    \/ SpeakReturns
    \/ \E orphan \in BOOLEAN : RunCancelled(orphan)
    \/ OrphanGetReturns
    \/ \E stt_ws \in BOOLEAN : ReconnectTaskDone(stt_ws)
    \/ WsCloseReturns
    \/ CloseReturns
    \/ FinallyCancelled

SpecAgent == AgentInit /\ [][AgentNext]_vars

\* ---------------------------------------------- the AgentClient by itself

\* The AgentClient after construction, with no call of it under way.
AgentClientInit ==
    /\ HostInit
    /\ NoUtil
    /\ api_session = NoSession
    /\ api_op = "none"
    /\ api_call = NoCall
    /\ api_reply = NoReply
    /\ api_result = NoResult
    /\ api_ops = 0
    /\ NoClient
    /\ tts = FALSE
    /\ agent_ws = "none"
    /\ agent_connected = FALSE
    /\ agent_sent = <<>>
    /\ agent_replies = <<>>
    /\ agent_request = 0
    /\ agent_response = NoResponse
    /\ n_requests = 0
    /\ reply_pc = "idle"
    /\ capture_queue = <<>>
    /\ mic_cooldown_left = 0
    /\ dequeued = NoFrame
    /\ to_callback = chunk_ms
    /\ loop_lag = 0
    /\ orphan_get = FALSE

\* No call of the AgentClient is under way: none was made yet, or the last
\* one, of send_transcription or of close(), has ended.
NoAgentCall == reply_pc \in { "idle", "returned", "done" }

\* A caller awaits connect(), as main() does before run().
Connect ==
    /\ NoAgentCall
    /\ reply_pc' = "connecting"
    /\ UNCHANGED << agent_ws, agent_connected, agent_sent, agent_replies, agent_request,
                    agent_response, n_requests, tts, capture_queue, mic_cooldown_left,
                    dequeued, to_callback, loop_lag, orphan_get >>
    /\ UNCHANGED << host_vars, api_vars, client_vars, util_vars >>

\* The connect() a caller awaits returns: with a new connection, on which
\* nothing was sent, or with none.
ConnectCallReturns(connects) ==
    /\ reply_pc = "connecting"
    /\ agent_ws' = IF connects THEN "open" ELSE "none"
    /\ agent_connected' = connects
    /\ agent_sent' = <<>>
    /\ agent_replies' = <<>>
    /\ reply_pc' = "done"
    /\ UNCHANGED << agent_request, agent_response, n_requests, tts, capture_queue,
                    mic_cooldown_left, dequeued, to_callback, loop_lag, orphan_get >>
    /\ UNCHANGED << host_vars, api_vars, client_vars, util_vars >>

\* A caller awaits send_transcription.
SendTranscription(send_waits) ==
    /\ NoAgentCall
    /\ n_requests < MaxRequests
    /\ send_transcription(send_waits)
    /\ UNCHANGED << tts, capture_queue, mic_cooldown_left, dequeued, to_callback,
                    loop_lag, orphan_get >>
    /\ UNCHANGED << host_vars, api_vars, client_vars, util_vars >>

\* A caller awaits close().
Close ==
    /\ NoAgentCall
    /\ close_called
    /\ UNCHANGED << agent_sent, agent_replies, agent_request, agent_response, n_requests,
                    tts, capture_queue, mic_cooldown_left, dequeued, to_callback,
                    loop_lag, orphan_get >>
    /\ UNCHANGED << host_vars, api_vars, client_vars, util_vars >>

\* The caller of close() is cancelled in its await.
CloseCancelled == reply_pc = "closing" /\ FinallyCancelled

AgentClientNext ==
    \/ Connect
    \/ \E connects \in BOOLEAN : ConnectCallReturns(connects)
    \/ \E send_waits \in BOOLEAN : SendTranscription(send_waits)
    \/ \E connects, send_waits \in BOOLEAN : ConnectReturns(connects, send_waits)
    \/ SendReturns
    \/ SendClosed
    \/ AgentAnswers
    \/ AgentCloses
    \/ RecvReturns
    \/ RecvTimesOut
    \/ RecvClosed
    \/ Close
    \/ CloseReturns
    \/ CloseCancelled

SpecAgentClient == AgentClientInit /\ [][AgentClientNext]_vars

\* ------------------------------------------------------------------- claims

Running == {"partial_run", "final_run"}

Sending == {"partial_send", "final_send"}

Last(q) == q[Len(q)]

\* C1: once a vad_end has been handled on a streaming connection (the
\* handler is back at the top of its loop), the session's audio_buffer is
\* empty.
C1_BufferEmptyAfterVadEnd ==
    \A c \in Conns :
        (conn[c] = "open" /\ pc[c] = "recv" /\ current[c] = VadEnd)
            => session[c].audio_buffer = <<>>

\* C2: previous_transcript is changed only by get_final; a get_final whose
\* text is empty leaves it as it was, a get_final with a non-empty text T
\* sets it to T.
C2_PreviousTranscriptUpdate ==
    [][ api_ops' = api_ops + 1 =>
          IF api_op' = "get_final" /\ api_reply'.text # <<>>
          THEN api_session'.previous_transcript = api_reply'.text
          ELSE api_session'.previous_transcript = api_session.previous_transcript
      ]_vars

\* C3: get_partial leaves previous_transcript, context_audio and
\* audio_buffer as they were, whatever the buffer holds and whatever the
\* strategy.
C3_PartialLeavesSession ==
    [][ (api_ops' = api_ops + 1 /\ api_op' = "get_partial") =>
          /\ api_session'.previous_transcript = api_session.previous_transcript
          /\ api_session'.context_audio = api_session.context_audio
          /\ api_session'.audio_buffer = api_session.audio_buffer
      ]_vars

\* get_partial has returned a transcript for a session that holds audio, a
\* previous transcript and context audio.
C3_Witness ==
    /\ api_op = "get_partial"
    /\ api_reply.text # <<>>
    /\ api_session.audio_buffer # <<>>
    /\ api_session.previous_transcript # <<>>
    /\ ~api_session.context_audio.is_none

\* C4: every vad_end handled on a streaming connection has sent exactly one
\* final reply, also when no audio was buffered.
C4_OneFinalPerVadEnd ==
    \A c \in Conns :
        (conn[c] = "open" /\ pc[c] = "recv" /\ current[c] = VadEnd)
            => /\ outbox[c] # <<>>
               /\ Last(outbox[c]).type = "final"
               /\ Last(outbox[c]).trigger = n_handled[c]

\* The path BatchClient and StreamingClient connect to (client/main.py).
BatchPath == Path(<<"ws", "transcribe">>)

\* C5: a transcribe message sent on a connection to /ws/transcribe gets its
\* reply: while it waits to be read the connection is served, and once it
\* has been handled its reply has been sent.
C5_OneReplyPerTranscribe ==
    \A c \in Conns :
        path[c] = BatchPath =>
            /\ (\E i \in 1 .. Len(inbox[c]) : inbox[c][i] = Transcribe)
                   => conn[c] = "open"
            /\ (conn[c] = "open" /\ pc[c] = "recv" /\ current[c] = Transcribe)
                   => (outbox[c] # <<>> /\ Last(outbox[c]).trigger = n_handled[c])

\* C6: on one connection replies are sent in the order of the inbound
\* messages that triggered them, a partial by an audio_frame and a final by
\* a vad_end, and no inbound message is handled between the start of a
\* recognizer call and the sending of its reply.
C6_RepliesInOrder ==
    \A c \in Conns :
        LET o == outbox[c] IN
        /\ \A i \in 1 .. Len(o) :
              /\ o[i].trigger <= n_handled[c]
              /\ o[i].type = "partial" => o[i].by = "audio_frame"
              /\ o[i].type = "final" => o[i].by = "vad_end"
              /\ \A j \in 1 .. Len(o) : i < j => o[i].trigger < o[j].trigger
        /\ pc[c] \in Running \cup Sending => trigger[c] = n_handled[c]
        /\ pending[c] # NoReply => pc[c] \in Sending

\* A connection has sent the partial of its first message and then the
\* final of its second.
C6_Witness ==
    \E c \in Conns :
        outbox[c] = << Sent("partial", 1, "audio_frame"), Sent("final", 2, "vad_end") >>

\* C7: at most one recognizer call executes at any time, over all
\* connections.
C7_RecognizerSerialized ==
    Cardinality({ c \in Conns : pc[c] \in Running }) <= 1

\* Non-JSON text, or a JSON object without its "type" or its "audio".
Malformed(m) == m \in { NotJson, NoType, AudioFrame(NoPayload) }

\* C8: a malformed message is skipped: the session is unchanged, the
\* connection stays open and the handler goes on to the next message.
C8_MalformedSkipped ==
    [][ \A c \in Conns :
          (n_handled'[c] = n_handled[c] + 1 /\ Malformed(current'[c]))
              => /\ conn'[c] = "open"
                 /\ pc'[c] = "recv"
                 /\ session'[c] = session[c]
      ]_vars

\* C9: when the recognizer raises during a partial or a final, nothing is
\* sent, the connection stays open and the handler goes on to the next
\* message.
C9_RecognizerErrorDropped ==
    [][ \A c \in Conns :
          (pc[c] \in Running /\ pc'[c] \notin Running \cup Sending)
              => /\ conn'[c] = "open"
                 /\ pc'[c] = "recv"
                 /\ outbox'[c] = outbox[c]
      ]_vars

\* The requested paths of the form /ws/transcribe/{strategy} that name a
\* strategy of the server.
GoodPaths ==
    { Path(<<"ws", "transcribe", "prompt">>),
      Path(<<"ws", "transcribe", "context">>),
      Path(<<"ws", "transcribe", "hybrid">>) \o <<"/">> }

\* C10: a connection with a bad path or an unknown strategy is closed with
\* code 1008 and a reason; it has no session, no recognizer call is made for
\* it, none of its messages is handled and nothing is sent on it.
C10_BadPathRejected ==
    \A c \in Conns :
        (conn[c] # "none" /\ path[c] \notin GoodPaths)
            => /\ conn[c] = "rejected"
               /\ close_code[c] = 1008
               /\ close_reason[c] # <<>>
               /\ session[c] = NoSession
               /\ call[c] = NoCall
               /\ pc[c] = "done"
               /\ n_handled[c] = 0
               /\ outbox[c] = <<>>

\* C11: every accepted connection starts with a new session (empty
\* audio_buffer, empty previous_transcript, no context_audio); a connection
\* that is not open holds no session; a step of one connection's handler
\* never changes the session of another connection.
C11_SessionPerConnection ==
    [][ \A c \in Conns :
          /\ (conn[c] # "open" /\ conn'[c] = "open")
                => /\ session'[c].audio_buffer = <<>>
                   /\ session'[c].previous_transcript = <<>>
                   /\ session'[c].context_audio = NoAudio
          /\ conn'[c] # "open" => session'[c] = NoSession
          /\ (n_handled'[c] # n_handled[c] \/ pc'[c] # pc[c] \/ conn'[c] # conn[c])
                => \A d \in Conns \ {c} : session'[d] = session[d]
      ]_vars

\* A connection was accepted, and has its new session, while another
\* connection's session holds a previous transcript and context audio.
C11_Witness ==
    \E c, d \in Conns :
        /\ c # d
        /\ conn[c] = "open" /\ conn[d] = "open"
        /\ session[c].previous_transcript # <<>>
        /\ ~session[c].context_audio.is_none
        /\ n_handled[d] = 0
        /\ session[d].previous_transcript = <<>>
        /\ session[d].context_audio = NoAudio

\* C12: with the context and hybrid strategies every segment of a final
\* reply has 0 <= start <= end (the recognizer's segments all have
\* 0 <= start <= end on its input).
C12_FinalSegmentBounds ==
    (api_op = "get_final" /\ api_session.strategy_name \in {<<"context">>, <<"hybrid">>})
        => \A i \in 1 .. Len(api_reply.segments) :
              /\ 0 <= api_reply.segments[i].start
              /\ api_reply.segments[i].start <= api_reply.segments[i].end

\* A text the specification's clean_hallucination rejects by its rule 2:
\* some character occurs 6 or more times in a row.
Hallucinated(text) ==
    \E i \in 1 .. Len(text) - 5 :
        \A k \in 1 .. 5 : text[i + k] = text[i]

\* C13: hallucinated recognizer text is never delivered as the text of a
\* final reply (a final whose recognizer output is rejected carries empty
\* text).
C13_NoHallucinatedFinal ==
    api_op = "get_final" => ~Hallucinated(api_reply.text)

\* The speech gate is speaking once this turn's onset debounce is done.
SpeakingNow ==
    \/ gate.is_speaking
    \/ detect_speech(chunk') /\ gate.onset_count + 1 >= onset_threshold

\* The chunks of the utterance, this turn's chunk included.
ChunksNow == Len(gate.audio_chunks) + 1

\* C14: in both clients is_speaking goes from false to true only on a
\* chunk that completes onset_threshold speech-detected chunks in a row, and
\* any chunk without speech leaves onset_count at 0.
C14_OnsetDebounce ==
    [][ tick' # tick =>
          /\ (~gate.is_speaking /\ gate'.is_speaking)
                => /\ frame_op' = "frame"
                   /\ detect_speech(chunk')
                   /\ speech_run' >= onset_threshold
          /\ (frame_op' = "frame" /\ ~detect_speech(chunk'))
                => gate'.onset_count = 0
      ]_vars

\* The gate has just entered the speaking state: its buffer holds the one
\* chunk that completed the run.
C14_Witness ==
    /\ frame_op = "frame"
    /\ gate.is_speaking
    /\ Len(gate.audio_chunks) = 1
    /\ speech_run = onset_threshold

\* C15: when BatchClient finalizes an utterance while connected, it makes
\* its _send_and_receive if and only if the utterance lasts at least
\* min_speech_ms and its average energy is at least min_energy; either way
\* the SpeechState is reset when the turn ends, which is after the
\* send_transcription of a turn that calls the agent.
C15_BatchSendThresholds ==
    [][ /\ (tick' # tick /\ mode = "batch" /\ finalized' /\ connected) =>
              /\ attempt' # NoAttempt
                    <=> /\ ChunksNow * chunk_ms >= min_speech_ms
                        /\ gate.energy_sum + chunk'.energy >= min_energy * ChunksNow
              /\ attempt' # NoAttempt
                    => attempt'.audio = Append(gate.audio_chunks, n_chunks')
              /\ agent_call' # "pending" => gate' = SpeechState
        /\ (mode = "batch" /\ agent_call = "pending" /\ agent_call' # "pending")
              => gate' = SpeechState
      ]_vars

\* BatchClient has sent an utterance that is exactly min_speech_ms long
\* and whose average energy is exactly min_energy.
C15_Witness ==
    /\ mode = "batch"
    /\ finalized
    /\ attempt.outcome = "text"
    /\ Len(attempt.audio) * chunk_ms = min_speech_ms
    /\ attempt.energy_sum = min_energy * Len(attempt.audio)
    /\ gate = SpeechState

\* C16: BatchClient finalizes on a chunk exactly when it is speaking and
\* either the chunks without speech in a row have reached silence_chunks or
\* the buffered duration has reached max_speech_ms.
C16_BatchFinalize ==
    [][ (tick' # tick /\ mode = "batch" /\ frame_op' = "frame") =>
          ( finalized' <=>
              /\ SpeakingNow
              /\ \/ silence_run' >= batch_silence_chunks
                 \/ ChunksNow * chunk_ms >= max_speech_ms )
      ]_vars

\* BatchClient has finalized on a chunk with speech: the cap on the
\* duration ended the utterance.
C16_Witness ==
    /\ mode = "batch"
    /\ finalized
    /\ detect_speech(chunk)
    /\ speech_run = onset_threshold

\* C17: in StreamingClient a chunk that brings the buffered duration of the
\* utterance to max_speech_ms ends the utterance: is_speaking is false
\* when the turn ends.
C17_StreamingCapFinalizes ==
    [][ ( /\ tick' # tick /\ mode = "streaming" /\ frame_op' = "frame"
          /\ gate.is_speaking
          /\ ChunksNow * chunk_ms >= max_speech_ms )
            => (finalized' /\ (agent_call' # "pending" => ~gate'.is_speaking))
      ]_vars

\* C18: a chunk dequeued before the cooldown deadline (less time has
\* passed since the last dequeue than was left to the deadline then) is
\* dropped without being classified or buffered, the gate is left in its
\* reset state and nothing is sent; in both clients.
C18_CooldownDiscards ==
    [][ (tick' # tick /\ cooldown_left > elapsed_ms') =>
          /\ frame_op' = "cooldown"
          /\ gate' = SpeechState
          /\ utterance_transcripts' = 0
          /\ speech_run' = 0
          /\ n_chunks' = n_chunks
          /\ attempt' = NoAttempt
          /\ sent_upto' = sent_upto
          /\ connected' = connected
      ]_vars

\* A chunk with speech was dequeued a frame period after the last one and
\* dropped during the cooldown, and the cooldown goes on.
C18_Witness ==
    /\ frame_op = "cooldown"
    /\ detect_speech(chunk)
    /\ elapsed_ms = chunk_ms
    /\ cooldown_left > chunk_ms
    /\ gate = SpeechState

\* C19: while _connected is false the loop goes on with its chunks but
\* makes no _send_and_receive, and an utterance finalized then is dropped
\* with the gate reset when its turn ends (after the send_transcription of
\* a turn that calls the agent); the audio of a failed _send_and_receive is dropped,
\* and no chunk is ever passed to _send_and_receive twice.
C19_OfflineDrops ==
    [][ /\ tick' # tick =>
              /\ ~connected => (attempt' = NoAttempt /\ sent_upto' = sent_upto)
              /\ (~connected /\ finalized' /\ agent_call' # "pending")
                    => gate' = SpeechState
              /\ attempt'.outcome = "lost"
                    => (~connected' /\ gate'.audio_chunks = <<>>)
              /\ \A i \in 1 .. Len(attempt'.audio) : attempt'.audio[i] > sent_upto
        /\ (agent_call = "pending" /\ agent_call' # "pending") => gate' = SpeechState
      ]_vars

\* A _send_and_receive failed, its audio was dropped, and the client has
\* reconnected since.
C19_Witness ==
    /\ attempt.outcome = "lost"
    /\ sent_upto = attempt.audio[Len(attempt.audio)]
    /\ connected
    /\ transport = "open"
    /\ gate.audio_chunks = <<>>

\* One turn of the main loop of the client that runs.
ChunkStep ==
    \E c \in Chunks, elapsed \in ElapsedTimes,
       outcome \in {"none", "text", "empty", "noise", "lost"}, to_agent \in BOOLEAN :
        BatchChunk(c, elapsed, outcome, to_agent) \/ StreamingChunk(c, elapsed, outcome, to_agent)

\* The send_transcription the loop waits in returns: its recv() has a
\* timeout of 60 s.
AgentStep == \E agent_ok \in BOOLEAN, wait \in Waits : AgentReturns(agent_ok, wait)

\* The recv() of a turn that waits on a connection the server has closed
\* raises ConnectionClosed.
RecvFails == transport # "open" /\ RecvEnds("lost", FALSE)

\* The clients under the scheduling of the event loop: run() makes its first
\* _connect, the reconnect task gets its turn whenever the main loop awaits,
\* the main loop goes on while the capture delivers chunks, a recv() on a
\* closed connection ends, and so does a send_transcription.
SpecClientLive ==
    /\ ClientInit
    /\ [][ClientNext]_vars
    /\ WF_vars(ClientStart)
    /\ WF_vars(Reconnect)
    /\ WF_vars(ChunkStep)
    /\ WF_vars(RecvFails)
    /\ WF_vars(AgentStep)

\* C20: whenever the client's websocket is not open while the server
\* accepts connections, the connection is eventually open again.
C20_EventuallyReconnected ==
    (started /\ server_up /\ transport # "open") ~> (transport = "open")

\* C21: a batch client that has sent its transcribe and gets no reply does
\* not wait forever: the wait ends and the loop goes on with its chunks.
C21_NoReplyTimesOut ==
    (mode = "batch" /\ held # NoChunk) ~> (held = NoChunk)


\* The (start, phrase_len) pairs, 0-based start, of the phrases of words
\* that are said more than n times in a row.
RepeatedRuns(words, n) ==
    { p \in (0 .. Len(words) - 1) \X (1 .. Len(words)) :
        /\ p[1] + p[2] <= Len(words)
        /\ CountRepeats(words, SubSeq(words, p[1] + 1, p[1] + p[2]), p[1], 0) > n }

IsWordPrefix(u, w) == Len(u) <= Len(w) /\ SubSeq(w, 1, Len(u)) = u

\* C22: dedup_repeated_phrases returns the text unchanged when no phrase is
\* said more than max_repeats times in a row; otherwise it returns the words
\* before the first such run and one instance of its phrase; the result is
\* always a prefix of the input by word split.
C22_DedupTruncatesAtFirstRun ==
    LET words == split(util_text)
        runs  == RepeatedRuns(words, util_max_repeats)
    IN  util_result # NoText =>
          /\ runs = {} => util_result = util_text
          /\ runs # {} =>
               \E p \in runs :
                   /\ \A q \in runs : p[1] <= q[1]
                   /\ util_result = join(SubSeq(words, 1, p[1] + p[2]))
          /\ IsWordPrefix(split(util_result), words)


\* The handler of connection c reads an audio_frame whose payload decodes,
\* without error, to zero samples.
ReadsEmptyFrame(c) ==
    /\ n_handled'[c] = n_handled[c] + 1
    /\ current'[c].syntax = "object"
    /\ current'[c].type = "audio_frame"
    /\ ~decode_raises(current'[c])
    /\ decode_audio(current'[c]) = <<>>

\* C23: an audio_frame whose payload decodes to zero samples leaves the
\* session's audio_buffer unchanged and starts no partial and no final (the
\* other half, a capture timeout on the client, changes no state at all).
C23_EmptyFrameFiltered ==
    [][ \A c \in Conns :
          ReadsEmptyFrame(c) =>
              /\ session'[c].audio_buffer = session[c].audio_buffer
              /\ pc'[c] = pc[c]
      ]_vars


\* The handler of connection c has handled, as its first messages, as many
\* audio_frames with samples as fit before a last vad_end, and is through
\* with that vad_end: its recognizer call got the audio of all the frames.
StreamedThenVadEnd(c) ==
    /\ conn[c] \in {"open", "failed"}
    /\ pc[c] \in {"recv", "done"}
    /\ current[c] = VadEnd
    /\ n_handled[c] = MaxMsgs
    /\ \E f \in Frames : Len(call[c].audio) = (MaxMsgs - 1) * Len(f)

\* C24: on a streaming connection that received audio_frames with samples
\* and then vad_end, at least one partial was sent before the final,
\* exactly one final was sent, for the vad_end, and audio_buffer is empty.
C24_PartialThenFinal ==
    \A c \in Conns :
        StreamedThenVadEnd(c) =>
            /\ \E i \in 1 .. Len(outbox[c]) : outbox[c][i].type = "partial"
            /\ outbox[c] # <<>>
            /\ Last(outbox[c]) = Sent("final", n_handled[c], "vad_end")
            /\ \A i \in 1 .. Len(outbox[c]) - 1 : outbox[c][i].type = "partial"
            /\ session[c].audio_buffer = <<>>


\* The segments of segs that end after d, in their order, moved back by d.
SegmentsAfter(segs, d) ==
    LET kept == SelectSeq(segs, LAMBDA g : g.end > d)
    IN  [i \in 1 .. Len(kept) |->
            Segment(kept[i].start - d, kept[i].end - d, kept[i].text)]

\* C25: a get_final with context present (strategy context or hybrid,
\* context_audio of duration d, in sample periods as the segments' times
\* are) returns exactly the recognizer's segments
\* that end after d, in order, moved back by d, and as text the
\* single-space join of their texts.
C25_FinalTrimsContext ==
    [][ ( /\ api_ops' = api_ops + 1
          /\ api_op' = "get_final"
          /\ api_session.audio_buffer # <<>>
          /\ api_session.strategy_name \in {<<"context">>, <<"hybrid">>}
          /\ ~api_session.context_audio.is_none )
        => LET d == Len(api_session.context_audio.samples)
               new == SegmentsAfter(api_result'.segments, d)
           IN  /\ api_reply'.segments = new
               /\ api_reply'.text = join([i \in 1 .. Len(new) |-> new[i].text])
      ]_vars

\* A final with context dropped the segment inside the context ('a') and
\* moved the next one ('b') back to the start.
C25_Witness ==
    /\ api_op = "get_final"
    /\ Len(api_result.segments) = 2
    /\ api_reply.segments = << Segment(0, 1, <<"b">>) >>
    /\ api_reply.text = <<"b">>


\* A get_partial or get_final step of the session that calls the recognizer.
RecognizerCalled(op) ==
    /\ api_ops' = api_ops + 1
    /\ api_op' = op
    /\ api_session.audio_buffer # <<>>

\* C26: conditioning follows the strategy alone. previous_transcript goes
\* to the recognizer as initial prompt for prompt and hybrid and never for
\* context; context_audio is put before a final's input for context and
\* hybrid when present and never for prompt; the first final of a session
\* (no context_audio yet) uses neither.
C26_ConditioningByStrategy ==
    [][ LET s   == api_session
            raw == concatenate(s.audio_buffer)
        IN  /\ (RecognizerCalled("get_partial") \/ RecognizerCalled("get_final")) =>
                 /\ s.strategy_name = <<"context">> =>
                        api_call'.initial_prompt = NoText
                 /\ (s.strategy_name \in {<<"prompt">>, <<"hybrid">>}
                        /\ s.previous_transcript # <<>>) =>
                        api_call'.initial_prompt = s.previous_transcript
                 /\ s.previous_transcript = <<>> =>
                        api_call'.initial_prompt = NoText
            /\ RecognizerCalled("get_final") =>
                 /\ (s.strategy_name \in {<<"context">>, <<"hybrid">>}
                        /\ ~s.context_audio.is_none) =>
                        api_call'.audio = s.context_audio.samples \o raw
                 /\ s.strategy_name = <<"prompt">> => api_call'.audio = raw
                 /\ s.context_audio.is_none =>
                        /\ s.previous_transcript = <<>>
                        /\ api_call'.initial_prompt = NoText
                        /\ api_call'.audio = raw
      ]_vars

\* A later final of a hybrid session was given both the previous
\* transcript and the context before its audio.
C26_Witness ==
    /\ api_op = "get_final"
    /\ api_session.strategy_name = <<"hybrid">>
    /\ api_call.initial_prompt = <<"a">>
    /\ api_call.audio = <<3, 2, 3>>


\* The last n samples of audio, all of it when it has fewer.
TailOf(audio, n) ==
    LET k == Min(Len(audio), n) IN SubSeq(audio, Len(audio) - k + 1, Len(audio))

\* C27: after a get_final on a non-empty buffer, context_audio is the last
\* min(N, context_overlap_ms * rate / 1000) samples of the raw buffer just
\* finalized, the context put before it for the recognizer left out; so it
\* never exceeds context_overlap_ms.
C27_ContextIsRawTail ==
    [][ RecognizerCalled("get_final") =>
          LET raw     == concatenate(api_session.audio_buffer)
              overlap == (context_overlap_ms * SampleRate) \div 1000
          IN  /\ ~api_session'.context_audio.is_none
              /\ api_session'.context_audio.samples = TailOf(raw, overlap)
              /\ Len(api_session'.context_audio.samples) <= overlap
      ]_vars

\* A final of a context session whose recognizer input began with the old
\* context kept the tail of the new raw audio only.
C27_Witness ==
    /\ api_op = "get_final"
    /\ api_session.strategy_name = <<"context">>
    /\ api_call.audio = <<3, 1>>
    /\ api_session.context_audio = SomeAudio(<<1>>)


\* C28: the audio get_partial gives the recognizer is the last
\* min(N, partial_max_ms * rate / 1000) samples of the concatenated buffer,
\* in order, with no context_audio before it, however the samples are
\* split into frames; its length never exceeds partial_max_ms.
C28_PartialAudioIsTail ==
    [][ RecognizerCalled("get_partial") =>
          LET max_samples == (partial_max_ms * SampleRate) \div 1000
          IN  /\ api_call'.audio =
                    TailOf(concatenate(api_session.audio_buffer), max_samples)
              /\ Len(api_call'.audio) <= max_samples
      ]_vars

\* A partial of a hybrid session that has context and more audio buffered
\* than partial_max_ms got the tail, cut inside a frame, and no context.
C28_Witness ==
    /\ api_op = "get_partial"
    /\ api_session.strategy_name = <<"hybrid">>
    /\ ~api_session.context_audio.is_none
    /\ api_session.audio_buffer = << <<2, 3>>, <<2, 3>> >>
    /\ api_call.audio = <<3, 2, 3>>


\* The handler of connection c starts a partial.
StartsPartial(c) == pc[c] # "partial_run" /\ pc'[c] = "partial_run"

\* C29: a partial is started only by an audio_frame, only when at least
\* partial_interval_ms have passed since the connection was accepted, since
\* its last reply (partial or final) was sent and since its last vad_end,
\* and only when the buffer holds audio. Hence two partials in a row are
\* never closer than partial_interval_ms and none follows a vad_end sooner.
C29_PartialTimer ==
    [][ \A c \in Conns :
          StartsPartial(c) =>
              /\ current'[c].type = "audio_frame"
              /\ now - last_event_time[c] >= partial_interval_ms
              /\ total_samples(session'[c].audio_buffer) > 0
      ]_vars

\* A partial was started by the second audio_frame of a connection, the
\* first having come too early, partial_interval_ms after the accept.
C29_Witness ==
    \E c \in Conns :
        /\ pc[c] = "partial_run"
        /\ n_handled[c] = 2
        /\ Len(session[c].audio_buffer) = 2
        /\ now - last_event_time[c] = partial_interval_ms


\* C30: on one connection at most one recognizer call is in flight and the
\* session is touched by that connection's handler only. While a call runs
\* or its reply is being sent, no inbound message of the connection is
\* read and the session and the call stay as they are; messages are read
\* one at a time, at the top of the loop, in their order of arrival; a step
\* that changes the session of one connection changes nothing of another.
C30_OneCallPerConnection ==
    [][ \A c \in Conns :
          /\ pc[c] \in Running \cup Sending => n_handled'[c] = n_handled[c]
          /\ (pc[c] \in Running /\ pc'[c] \in Running) =>
                 /\ pc'[c] = pc[c]
                 /\ session'[c] = session[c]
                 /\ call'[c] = call[c]
          /\ (pc[c] \in Sending /\ conn'[c] = "open") => session'[c] = session[c]
          /\ (n_handled'[c] = n_handled[c] + 1) =>
                 /\ pc[c] = "recv"
                 /\ inbox[c] # <<>>
                 /\ current'[c] = Head(inbox[c])
                 /\ conn'[c] = "open" => inbox'[c] = Tail(inbox[c])
          /\ (call'[c] # call[c] /\ conn[c] = "open") =>
                 /\ pc[c] = "recv"
                 /\ pc'[c] \in Running
          /\ session'[c] # session[c] =>
                 \A d \in Conns \ {c} :
                     /\ session'[d] = session[d]
                     /\ pc'[d] = pc[d]
                     /\ n_handled'[d] = n_handled[d]
      ]_vars

\* While the partial of the first frame runs, a second frame has arrived
\* and waits: it has not been applied to the session.
C30_Witness ==
    \E c \in Conns :
        /\ pc[c] = "partial_run"
        /\ inbox[c] # <<>>
        /\ \E f \in Frames : Head(inbox[c]) = AudioFrame(ValidPayload(f))
        /\ Len(session[c].audio_buffer) = 1
        /\ n_handled[c] = 1


\* A turn of StreamingClient in which, during speech and while connected,
\* the silent chunks in a row reach pause_chunks.
ReachesPause ==
    /\ tick' # tick
    /\ mode = "streaming"
    /\ frame_op' = "frame"
    /\ connected
    /\ gate.is_speaking
    /\ ~detect_speech(chunk')
    /\ gate.silence_count + 1 = pause_chunks

\* The chunks buffered when the pause is checked, this turn's included.
BufferedNow == Append(gate.audio_chunks, n_chunks + 1)

\* C31 as claimed: when the silent chunks reach pause_chunks during speech,
\* while connected, the buffered chunks are sent as one request and the
\* buffer is cleared, and is_speaking stays true.
C31_PauseSends ==
    [][ ReachesPause =>
          /\ attempt'.audio = BufferedNow
          /\ gate'.audio_chunks = <<>>
          /\ gate'.is_speaking
      ]_vars

\* C31 amended: the buffered chunks are sent as one request when they last
\* at least min_chunk_ms and are dropped unsent when they are shorter; in
\* both cases the buffer is cleared and is_speaking stays true.
C31_PauseSendsLongEnough ==
    [][ ReachesPause =>
          /\ IF Len(BufferedNow) * chunk_ms >= min_chunk_ms
             THEN attempt'.audio = BufferedNow
             ELSE attempt' = NoAttempt /\ sent_upto' = sent_upto
          /\ gate'.audio_chunks = <<>>
          /\ gate'.is_speaking
      ]_vars

\* A pause has sent two chunks, the last one silent, and the utterance
\* goes on with an empty buffer.
C31_Witness ==
    /\ mode = "streaming"
    /\ frame_op = "frame"
    /\ ~detect_speech(chunk)
    /\ Len(attempt.audio) = 2
    /\ attempt.outcome = "text"
    /\ gate.is_speaking
    /\ gate.silence_count = pause_chunks
    /\ gate.audio_chunks = <<>>


\* A turn of StreamingClient in which, during speech, the silent chunks in
\* a row reach silence_chunks.
ReachesSilence ==
    /\ tick' # tick
    /\ mode = "streaming"
    /\ frame_op' = "frame"
    /\ gate.is_speaking
    /\ ~detect_speech(chunk')
    /\ gate.silence_count + 1 = silence_chunks

\* C32: when the silent chunks reach silence_chunks the utterance ends: the
\* audio still buffered is sent (while connected), a summary is made of the
\* texts received for the utterance, this turn's included, whenever there
\* is one, and when the turn ends the client is back to not speaking with
\* an empty buffer and an empty list of transcripts.
C32_FinalSilenceEndsUtterance ==
    [][ ReachesSilence =>
          /\ finalized'
          /\ connected => attempt'.audio = BufferedNow
          /\ summary' = ( utterance_transcripts > 0 \/ attempt'.outcome = "text" )
          /\ agent_call' # "pending" =>
                /\ ~gate'.is_speaking
                /\ gate'.audio_chunks = <<>>
                /\ utterance_transcripts' = 0
      ]_vars


\* C33: after every turn of the BatchClient loop energy_count is the number
\* of buffered chunks and the buffer is non-empty exactly when is_speaking;
\* a chunk dequeued while is_speaking is appended to the buffer whatever
\* its classification (the turn may then finalize and send or drop it).
C33_BatchBufferInvariant ==
    [][ (tick' # tick /\ mode = "batch") =>
          /\ gate'.energy_count = Len(gate'.audio_chunks)
          /\ (gate'.audio_chunks # <<>>) <=> gate'.is_speaking
          /\ (gate.is_speaking /\ frame_op' = "frame") =>
                /\ n_chunks' = n_chunks + 1
                /\ IF finalized'
                   THEN attempt' # NoAttempt
                           => attempt'.audio = Append(gate.audio_chunks, n_chunks')
                   ELSE gate'.audio_chunks = Append(gate.audio_chunks, n_chunks')
      ]_vars

\* A chunk without speech was appended to the buffer of an utterance that
\* goes on.
C33_Witness ==
    /\ mode = "batch"
    /\ frame_op = "frame"
    /\ ~detect_speech(chunk)
    /\ gate.is_speaking
    /\ Len(gate.audio_chunks) >= 2
    /\ gate.audio_chunks[Len(gate.audio_chunks)] = n_chunks
    /\ gate.energy_count = Len(gate.audio_chunks)


\* C34: dedup_repeated_phrases considers repeated phrases of one to three
\* words only: a text in which no phrase of at most three words is said
\* more than max_repeats times in a row is returned unchanged, also when a
\* longer phrase is.
C34_DedupPhrasesUpToThree ==
    LET words == split(util_text)
        short == { p \in RepeatedRuns(words, util_max_repeats) : p[2] <= 3 }
    IN  (util_result # NoText /\ short = {}) => util_result = util_text

\* C35: no block captured while run() waited in speak() for the playback of
\* the agent's reply goes to the speech gate: each one is dropped by the
\* cooldown when it is dequeued. This is asked of the behaviours most in
\* the claim's favour only, those in which no turn of the loop so far took
\* more than handoff_ms from a block being there to run() going on with it.
C35_PlaybackFramesDropped ==
    (dequeued.playback /\ loop_lag < LagCap) => dequeued.op # "frame"

\* C36: what send_transcription returns for a request is the agent's reply to
\* that request, also after an earlier request that timed out.
C36_ReplyAnswersRequest ==
    agent_response.reply_to # 0 => agent_response.reply_to = agent_response.request

\* A JSON object whose type is neither audio_frame nor vad_end.
OtherType(m) == m.syntax = "object" /\ m.type \notin {"audio_frame", "vad_end"}

\* C37: reading a message whose type is neither audio_frame nor vad_end, a
\* missing type and a batch-style transcribe included, leaves the session
\* and the partial timer as they were, prepares and sends no reply, and
\* leaves the connection open with the handler ready for the next message.
C37_OtherTypeIgnored ==
    [][ \A c \in Conns :
          (n_handled'[c] = n_handled[c] + 1 /\ OtherType(current'[c]))
              => /\ session'[c] = session[c]
                 /\ last_partial_time'[c] = last_partial_time[c]
                 /\ pending'[c] = pending[c]
                 /\ outbox'[c] = outbox[c]
                 /\ call'[c] = call[c]
                 /\ conn'[c] = "open"
                 /\ pc'[c] = "recv"
                 /\ inbox'[c] = Tail(inbox[c])
      ]_vars

\* C37 witness: a transcribe or a message without type was read on a
\* connection whose session holds audio, and another message waits.
C37_Witness ==
    \E c \in Conns :
        /\ OtherType(current[c])
        /\ conn[c] = "open"
        /\ pc[c] = "recv"
        /\ session[c].audio_buffer # <<>>
        /\ inbox[c] # <<>>

\* C38: send_transcription is called only by a turn that ends an utterance
\* with a transcript: in BatchClient the stripped, non-empty text of the
\* reply to that turn's request, which is not of type "noise"; in
\* StreamingClient the summary of such texts. A noise reply, an empty text or
\* a lost reply never reaches the agent, and the cooldown is set only by a
\* turn whose send_transcription returned a response.
C38_AgentOnlyWithTranscript ==
    [][ /\ agent_call' # "none" =>
              /\ frame_op' = "frame"
              /\ finalized'
              /\ IF mode' = "batch"
                 THEN attempt'.outcome = "text"
                 ELSE summary' /\ attempt'.outcome \notin {"noise", "empty", "lost"}
        /\ cooldown_left' > cooldown_left => agent_call' = "reply"
      ]_vars

\* C38 witness: the agent answered the transcript of an utterance and the
\* cooldown runs.
C38_Witness ==
    /\ agent_call = "reply"
    /\ finalized
    /\ cooldown_left = agent_cooldown_ms

\* The other side of C38: a finalized utterance whose reply was noise, with
\* no call of the agent and no cooldown.
C38_NoiseWitness ==
    /\ finalized
    /\ attempt.outcome = "noise"
    /\ agent_call = "none"
    /\ cooldown_left = 0

\* A turn of StreamingClient for a silent chunk after a pause has cut the
\* utterance: the buffer is empty and the silence is at pause_chunks or more.
SilentAfterPauseCut ==
    /\ tick' # tick
    /\ mode = "streaming"
    /\ frame_op' = "frame"
    /\ gate.is_speaking
    /\ gate.audio_chunks = <<>>
    /\ gate.silence_count >= pause_chunks
    /\ ~detect_speech(chunk')

\* C39: with pause_chunks <= silence_chunks, the end-of-utterance branch of
\* StreamingClient.run always finds the buffer empty, the pause branch of
\* the same turn having cleared it, and sends no request; and after a pause
\* cut every further silent chunk is cleared from the buffer without being
\* sent.
C39_FinalBranchFindsNothing ==
    [][ pause_chunks <= silence_chunks =>
          /\ final_branch'.entered =>
                /\ final_branch'.audio_chunks = <<>>
                /\ ~final_branch'.sends
          /\ SilentAfterPauseCut =>
                /\ attempt' = NoAttempt
                /\ sent_upto' = sent_upto
                /\ gate'.audio_chunks = <<>>
      ]_vars

\* C39 witness: an utterance whose chunks a pause has sent ends at the long
\* silence: the end-of-utterance branch is taken for a silent chunk, after a
\* pause cut, and the summary is made of what the pause received.
C39_Witness ==
    /\ mode = "streaming"
    /\ final_branch.entered
    /\ finalized
    /\ summary
    /\ ~detect_speech(chunk)
    /\ attempt = NoAttempt
    /\ sent_upto > 0

\* C40: dedup_repeated_phrases is idempotent: applied to its own result,
\* with the same max_repeats, it returns that result unchanged.
C40_DedupIdempotent ==
    util_result # NoText =>
        dedup_repeated_phrases(util_result, util_max_repeats) = util_result

\* C40 amended: for max_repeats >= 3 dedup_repeated_phrases is idempotent:
\* applied to its own result it returns that result unchanged.
C40_DedupIdempotentFromThree ==
    (util_result # NoText /\ util_max_repeats >= 3) =>
        dedup_repeated_phrases(util_result, util_max_repeats) = util_result

\* C40 witness: with max_repeats >= 3 a text was cut after the first copy
\* of a phrase with an inner run, and a second call leaves the result alone.
C40_Witness ==
    /\ util_max_repeats >= 3
    /\ util_result = join(InnerRunPhrase)
    /\ util_text # util_result
    /\ dedup_repeated_phrases(util_result, util_max_repeats) = util_result

====
